---- MODULE Spec2Model ----
(***************************************************************************)
(* RSA key material of adafruit_rsa/key.py: key-pair generation            *)
(* (newkeys, gen_keys, find_p_q, calculate_keys_custom_exponent), the key  *)
(* objects (PublicKey, PrivateKey), blinding, and the private-key DER load *)
(* path; the SHA-256 objects of adafruit_hashlib/_sha256.py; the P4 loader *)
(* of adafruit_imageload/pnm/pbm_binary.py.  The state machines share the  *)
(* variables:                                                              *)
(*   Spec      the generator, the PrivateKey constructor and the DER load  *)
(*   SpecKey   the integer operations of one valid private key             *)
(*   SpecFind  direct calls of find_p_q                                    *)
(*   SpecBlind blinded_decrypt and blinded_encrypt of one private key      *)
(*   SpecLive  newkeys with the default exponent, with a fair scheduler    *)
(*   SpecSha   update, digest and copy of sha256 objects                   *)
(*   SpecPbm   load of pbm_binary                                          *)
(***************************************************************************)
EXTENDS Integers, Sequences, FiniteSets, TLC

VARIABLES
    pc,          \* position of the running call: idle | find_p_q | loop | done
    args,        \* arguments of the running call
    p, q,        \* find_p_q's local primes
    change_p,    \* find_p_q's alternation flag
    requested,   \* bit lengths asked of the prime source during this call
    logLevel,    \* level of the module logger `log`
    levelBefore, \* logLevel when the running call started
    logged,      \* messages the logger delivered during this call
    ret,         \* what the call returned or raised
    pub, priv,   \* the key objects the call produced
    input,       \* integers handed to the PrivateKey constructor or decoded from DER
    attempts,    \* find_p_q calls gen_keys made during this call (saturating)
    out,         \* what a helper or key-object operation returned
    hist,        \* SpecKey: operations applied to msg, in order
    msg,         \* SpecKey: the integer the pipeline started from
    rnd,         \* SpecKey: the blinding factor in use
    val,         \* SpecKey: the current integer
    kerr,        \* SpecKey: the error the last operation raised, or "none"
    resampled,   \* re-samples of a direct find_p_q call: their count (saturating)
                 \* and the prime the last one replaced
    sha,         \* SpecSha: the hash objects and the lists their dicts refer to
    pbm          \* SpecPbm: the running load call of the P4 loader

vars == <<pc, args, p, q, change_p, requested, logLevel, levelBefore, logged,
          ret, pub, priv, input, attempts, out, hist, msg, rnd, val, kerr,
          resampled, sha, pbm>>

genVars == <<pc, args, p, q, change_p, requested, logLevel, levelBefore,
             logged, ret, pub, input>>
keyVars == <<hist, msg, rnd, val, kerr>>
libVars == <<sha, pbm>>

(***************************************************************************)
(* Bounds of the model.                                                    *)
(***************************************************************************)
\* largest nbits passed to newkeys
MaxNbits == 18
\* largest argument handed to the PrivateKey constructor and the DER fields
MaxCtorArg == 4
\* largest prime a SpecKey key is built from
MaxSmallPrime == 7
\* value at which the count of gen_keys attempts stops growing
MaxAttempts == 2
\* largest prime of the keys blinded_encrypt is exercised with
MaxBlindPrime == 11
\* number of update, digest and copy calls made on the hash objects
MaxShaOps == 5
\* value at which the count of find_p_q re-samples stops growing
MaxResamples == 2

(***************************************************************************)
(* Program constants.                                                      *)
(***************************************************************************)
DEFAULT_EXPONENT == 65537
\* newkeys: if nbits < 16: raise ValueError("Key too small")
MinKeyBits == 16
\* find_p_q: shift = nbits // 16
ShiftDivisor == 16
SHA_BLOCKSIZE == 64

(***************************************************************************)
(* adafruit_rsa.common: bit_size, extended_gcd, inverse.                   *)
(***************************************************************************)
RECURSIVE bit_size(_)
bit_size(num) == IF num = 0 THEN 0 ELSE 1 + bit_size(num \div 2)

\* the loop of extended_gcd: while b != 0
RECURSIVE egcd_loop(_, _, _, _, _, _)
egcd_loop(a, b, x, lx, y, ly) ==
    IF b = 0 THEN <<a, lx, ly>>
    ELSE LET quot == a \div b
         IN  egcd_loop(b, a % b, lx - quot * x, x, ly - quot * y, y)

extended_gcd(a, b) ==
    LET r == egcd_loop(a, b, 0, 1, 1, 0)
    IN  <<r[1],
          IF r[2] < 0 THEN r[2] + b ELSE r[2],
          IF r[3] < 0 THEN r[3] + a ELSE r[3]>>

\* inverse(x, n): ok with the inverse, or NotRelativePrimeError with the divider
inverse(x, n) ==
    LET g == extended_gcd(x, n)
    IN  IF g[1] # 1
        THEN [ok |-> FALSE, error |-> "NotRelativePrimeError", d |-> g[1], inv |-> 0]
        ELSE [ok |-> TRUE, error |-> "none", d |-> 1, inv |-> g[2]]

\* (a * b) % m on unbounded integers, computed without a wide intermediate
RECURSIVE MulMod(_, _, _)
MulMod(a, b, m) ==
    IF b = 0 THEN 0
    ELSE LET h == MulMod(a, b \div 2, m)
         IN  (2 * h + (IF b % 2 = 1 THEN a % m ELSE 0)) % m

(***************************************************************************)
(* adafruit_rsa.prime.getprime: the prime source.  It answers with any odd *)
(* prime of exactly the requested bit length.                              *)
(***************************************************************************)
IsPrime(n) == n > 1 /\ \A k \in 2..(n - 1) : k * k <= n => n % k # 0

\* find_p_q's split of the bits between p and q
\* a shift of nbits // 8
shift_by_eighth(nbits) == nbits \div 8

shift(nbits) == nbits \div ShiftDivisor
pbits(nbits) == nbits + shift(nbits)
qbits(nbits) == nbits - shift(nbits)
total_bits(nbits) == nbits * 2

MaxPrimeBits == pbits(MaxNbits \div 2)
OddPrimes == {x \in 3..(2 ^ MaxPrimeBits - 1) : IsPrime(x)}

\* primes of 15 and of 17 bits: the lengths find_p_q(16, ...) asks for
WidePrimes == {16411, 32749, 65537, 131071}

getprime(nbits) == {x \in OddPrimes \cup WidePrimes : bit_size(x) = nbits}

(***************************************************************************)
(* The key objects.                                                        *)
(***************************************************************************)
NoKey == [type |-> "none"]

PublicKey(n, e) == [type |-> "PublicKey", n |-> n, e |-> e]

\* PrivateKey.__init__: stores n, e, d, p, q and computes exp1, exp2, coef
PrivateKey(n, e, d, pp, qq) ==
    IF pp = 1 \/ qq = 1
    THEN [ok |-> FALSE, error |-> "ZeroDivisionError", key |-> NoKey]
    ELSE LET c == inverse(qq, pp)
         IN  IF ~c.ok
             THEN [ok |-> FALSE, error |-> c.error, key |-> NoKey]
             ELSE [ok |-> TRUE, error |-> "none",
                   key |-> [type |-> "PrivateKey", n |-> n, e |-> e, d |-> d,
                            p |-> pp, q |-> qq,
                            exp1 |-> d % (pp - 1),
                            exp2 |-> d % (qq - 1),
                            coef |-> c.inv]]

(***************************************************************************)
(* adafruit_rsa.core: fast_pow, encrypt_int, decrypt_int.                  *)
(***************************************************************************)
\* binary exponentiation: the loop "while E > 0" of fast_pow
RECURSIVE fast_pow_loop(_, _, _, _)
fast_pow_loop(X, E, Y, m) ==
    IF E <= 0 THEN Y
    ELSE IF E % 2 = 0
    THEN fast_pow_loop((X * X) % m, E \div 2, Y, m)
    ELSE fast_pow_loop(X, E - 1, (X * Y) % m, m)

fast_pow(x, e, m) == fast_pow_loop(x, e, 1 % m, m)

encrypt_int(message, ekey, n) == fast_pow(message, ekey, n)
decrypt_int(cyphertext, dkey, n) == fast_pow(cyphertext, dkey, n)

(***************************************************************************)
(* AbstractKey.blind, AbstractKey.unblind, PrivateKey.blinded_decrypt.     *)
(***************************************************************************)
\* blind without the exponentiation of r
blind_plain_r(key, message, r) == (message * r) % key.n

blind(key, message, r) == (message * fast_pow(r, key.e, key.n)) % key.n

unblind(key, blinded, r) ==
    LET i == inverse(r, key.n)
    IN  IF ~i.ok
        THEN [ok |-> FALSE, error |-> i.error, value |-> 0]
        ELSE [ok |-> TRUE, error |-> "none", value |-> (i.inv * blinded) % key.n]

\* randint(self.n - 1): any integer of 1..n-1
randint(maxvalue) == 1..maxvalue

\* blinded_decrypt with the sampled blind_r made explicit
blinded_decrypt(key, encrypted, blind_r) ==
    LET blinded == blind(key, encrypted, blind_r)
        decrypted == decrypt_int(blinded, key.d, key.n)
    IN  unblind(key, decrypted, blind_r)

\* blinded_encrypt that exponentiates with the public exponent
blinded_encrypt_with_e(key, message, blind_r) ==
    LET blinded == blind(key, message, blind_r)
        encrypted == encrypt_int(blinded, key.e, key.n)
    IN  unblind(key, encrypted, blind_r)

\* blinded_encrypt with the sampled blind_r made explicit
blinded_encrypt(key, message, blind_r) ==
    LET blinded == blind(key, message, blind_r)
        encrypted == encrypt_int(blinded, key.d, key.n)
    IN  unblind(key, encrypted, blind_r)

\* log.debug(...): delivered only when the logger's level is DEBUG
log_debug(level, message, sofar) ==
    IF level = "DEBUG" THEN sofar \cup {message} ELSE sofar

\* _load_pkcs1_der keeping the encoded exp1, exp2, coef in the key
load_pkcs1_der_trusting(seq, level) ==
    IF seq[1] # 0
    THEN [ok |-> FALSE, error |-> "ValueError: version != 0", key |-> NoKey,
          logged |-> {}]
    ELSE LET k == PrivateKey(seq[2], seq[3], seq[4], seq[5], seq[6])
         IN  IF ~k.ok
             THEN [ok |-> FALSE, error |-> k.error, key |-> NoKey, logged |-> {}]
             ELSE [ok |-> TRUE, error |-> "none",
                   key |-> [k.key EXCEPT !.exp1 = seq[7], !.exp2 = seq[8],
                                         !.coef = seq[9]],
                   logged |-> {}]

\* _load_pkcs1_der without the version test
load_pkcs1_der_any_version(seq, level) ==
    LET k == PrivateKey(seq[2], seq[3], seq[4], seq[5], seq[6])
    IN  IF ~k.ok
        THEN [ok |-> FALSE, error |-> k.error, key |-> NoKey, logged |-> {}]
        ELSE [ok |-> TRUE, error |-> "none", key |-> k.key,
              logged |-> IF <<k.key.exp1, k.key.exp2, k.key.coef>>
                              # <<seq[7], seq[8], seq[9]>>
                         THEN log_debug(level, "malformed keyfile", {})
                         ELSE {}]

\* PrivateKey._load_pkcs1_der on the decoded sequence priv:
\* <<version, n, e, d, p, q, exp1, exp2, coef>>
load_pkcs1_der(seq, level) ==
    IF seq[1] # 0
    THEN [ok |-> FALSE, error |-> "ValueError: version != 0", key |-> NoKey,
          logged |-> {}]
    ELSE LET k == PrivateKey(seq[2], seq[3], seq[4], seq[5], seq[6])
         IN  IF ~k.ok
             THEN [ok |-> FALSE, error |-> k.error, key |-> NoKey, logged |-> {}]
             ELSE [ok |-> TRUE, error |-> "none", key |-> k.key,
                   logged |-> IF <<k.key.exp1, k.key.exp2, k.key.coef>>
                                   # <<seq[7], seq[8], seq[9]>>
                              THEN log_debug(level, "malformed keyfile", {})
                              ELSE {}]

(***************************************************************************)
(* find_p_q, calculate_keys_custom_exponent, gen_keys, newkeys.            *)
(***************************************************************************)
\* is_acceptable without the size test
is_acceptable_differ_only(pp, qq, accurate, nbits) == pp # qq

\* rsa.common.bit_size(p * q), computed without forming a product wider
\* than 31 bits: p * q = 256 * hi + lo with lo < 256
product_bit_size(pp, qq) ==
    LET hi == pp * (qq \div 256) + (pp * (qq % 256)) \div 256
    IN  IF hi = 0 THEN bit_size(pp * qq) ELSE bit_size(hi) + 8

\* is_acceptable that applies the size test whatever "accurate" is
is_acceptable_always_sized(pp, qq, accurate, nbits) ==
    IF pp = qq THEN FALSE
    ELSE total_bits(nbits) = product_bit_size(pp, qq)

is_acceptable(pp, qq, accurate, nbits) ==
    IF pp = qq THEN FALSE
    ELSE IF ~accurate THEN TRUE
    ELSE total_bits(nbits) = product_bit_size(pp, qq)

Max2(a, b) == IF a >= b THEN a ELSE b
Min2(a, b) == IF a <= b THEN a ELSE b

\* find_p_q's result written as "return p, q"
find_p_q_return_unordered(pp, qq) == [p |-> pp, q |-> qq]

\* find_p_q's result: return max(p, q), min(p, q)
find_p_q_return(pp, qq) == [p |-> Max2(pp, qq), q |-> Min2(pp, qq)]

\* calculate_keys_custom_exponent with phi_n taken as p * q - 1
calculate_keys_wrong_phi(pp, qq, exponent) ==
    LET phi_n == pp * qq - 1
        i == inverse(exponent, phi_n)
    IN  IF ~i.ok
        THEN [ok |-> FALSE, error |-> "NotRelativePrimeError", e |-> exponent,
              d |-> 0, divider |-> i.d]
        ELSE IF MulMod(exponent, i.inv, phi_n) # 1
        THEN [ok |-> FALSE, error |-> "ValueError", e |-> exponent,
              d |-> i.inv, divider |-> 1]
        ELSE [ok |-> TRUE, error |-> "none", e |-> exponent, d |-> i.inv,
              divider |-> 1]

\* calculate_keys_custom_exponent returning the pair as (d, e)
calculate_keys_swapped(pp, qq, exponent) ==
    LET phi_n == (pp - 1) * (qq - 1)
        i == inverse(exponent, phi_n)
    IN  IF ~i.ok
        THEN [ok |-> FALSE, error |-> "NotRelativePrimeError", e |-> exponent,
              d |-> 0, divider |-> i.d]
        ELSE IF MulMod(exponent, i.inv, phi_n) # 1
        THEN [ok |-> FALSE, error |-> "ValueError", e |-> exponent,
              d |-> i.inv, divider |-> 1]
        ELSE [ok |-> TRUE, error |-> "none", e |-> i.inv, d |-> exponent,
              divider |-> 1]

calculate_keys_custom_exponent(pp, qq, exponent) ==
    LET phi_n == (pp - 1) * (qq - 1)
        i == inverse(exponent, phi_n)
    IN  IF ~i.ok
        THEN [ok |-> FALSE, error |-> "NotRelativePrimeError", e |-> exponent,
              d |-> 0, divider |-> i.d]
        ELSE IF MulMod(exponent, i.inv, phi_n) # 1
        THEN [ok |-> FALSE, error |-> "ValueError", e |-> exponent,
              d |-> i.inv, divider |-> 1]
        ELSE [ok |-> TRUE, error |-> "none", e |-> exponent, d |-> i.inv,
              divider |-> 1]

calculate_keys(pp, qq) == calculate_keys_custom_exponent(pp, qq, DEFAULT_EXPONENT)

\* newkeys_entry with log.setLevel moved in front of the argument checks
newkeys_entry_level_first(nbits, poolsize, log_level, level) ==
    LET l == IF log_level = "DEBUG" THEN "DEBUG" ELSE level
    IN  IF nbits < MinKeyBits
        THEN [error |-> "Key too small", level |-> l]
        ELSE IF poolsize < 1
        THEN [error |-> "Pool size should be >= 1", level |-> l]
        ELSE [error |-> "none", level |-> l]

\* newkeys up to the call of gen_keys: the argument checks and log.setLevel
newkeys_entry(nbits, poolsize, log_level, level) ==
    IF nbits < MinKeyBits
    THEN [error |-> "Key too small", level |-> level]
    ELSE IF poolsize < 1
    THEN [error |-> "Pool size should be >= 1", level |-> level]
    ELSE [error |-> "none",
          level |-> IF log_level = "DEBUG" THEN "DEBUG" ELSE level]

\* newkeys_build with the public key given the default exponent
newkeys_build_default_e(pp, qq, e, d) ==
    LET n == pp * qq
    IN  [pub |-> PublicKey(n, DEFAULT_EXPONENT),
         priv |-> PrivateKey(n, e, d, pp, qq)]

\* newkeys after gen_keys returned (p, q, e, d): n = p * q and the two key objects
newkeys_build(pp, qq, e, d) ==
    LET n == pp * qq
    IN  [pub |-> PublicKey(n, e), priv |-> PrivateKey(n, e, d, pp, qq)]

(***************************************************************************)
(* The DER, base64 and PEM layer.  A byte string is a sequence over 0..255 *)
(* and the integers of an encoded key are held as their big-endian         *)
(* base-256 digits: the documented modulus 2367317549 is above 2^31.       *)
(***************************************************************************)
TagInteger == 2
TagBitString == 3
TagNull == 5
TagOid == 6
TagSequence == 48
ShortLengthLimit == 128
LongLengthOneByte == 129
PemLineLength == 64

RECURSIVE int_to_bytes(_)
int_to_bytes(n) ==
    IF n < 256 THEN <<n>> ELSE Append(int_to_bytes(n \div 256), n % 256)

RECURSIVE bytes_to_int(_)
bytes_to_int(b) ==
    IF b = <<>> THEN 0
    ELSE bytes_to_int(SubSeq(b, 1, Len(b) - 1)) * 256 + b[Len(b)]

RECURSIVE concat(_)
concat(items) == IF items = <<>> THEN <<>> ELSE Head(items) \o concat(Tail(items))

\* the definite length octets: short form below 128, else 0x81 and one octet
der_length(n) ==
    IF n < ShortLengthLimit THEN <<n>> ELSE <<LongLengthOneByte, n>>

der_tlv(tag, content) == <<tag>> \o der_length(Len(content)) \o content

\* INTEGER of a non-negative magnitude: a zero octet goes in front when the
\* first magnitude octet has its high bit set
der_integer(mag) ==
    der_tlv(TagInteger, IF mag[1] >= 128 THEN <<0>> \o mag ELSE mag)

der_sequence(items) == der_tlv(TagSequence, concat(items))

NoTlv == [ok |-> FALSE, tag |-> 0, content |-> <<>>, rest |-> <<>>]

\* one tag-length-value off the front of b
read_tlv(b) ==
    IF Len(b) < 2 THEN NoTlv
    ELSE LET long == b[2] >= ShortLengthLimit
             hdr == IF long THEN 3 ELSE 2
         IN  IF long /\ (b[2] # LongLengthOneByte \/ Len(b) < 3) THEN NoTlv
             ELSE LET n == IF long THEN b[3] ELSE b[2]
                  IN  IF Len(b) < hdr + n THEN NoTlv
                      ELSE [ok |-> TRUE, tag |-> b[1],
                            content |-> SubSeq(b, hdr + 1, hdr + n),
                            rest |-> SubSeq(b, hdr + n + 1, Len(b))]

\* the magnitude of a non-negative INTEGER's content octets
integer_magnitude(content) ==
    IF Len(content) > 1 /\ content[1] = 0 THEN Tail(content) ELSE content

\* the INTEGERs that fill b, as magnitudes
RECURSIVE read_integers(_)
read_integers(b) ==
    IF b = <<>> THEN [ok |-> TRUE, values |-> <<>>]
    ELSE LET t == read_tlv(b)
         IN  IF ~t.ok \/ t.tag # TagInteger \/ t.content = <<>>
             THEN [ok |-> FALSE, values |-> <<>>]
             ELSE LET more == read_integers(t.rest)
                  IN  [ok |-> more.ok,
                       values |-> <<integer_magnitude(t.content)>> \o more.values]

\* decoder.decode(keyfile, asn1Spec=<SEQUENCE of count INTEGERs>): what
\* follows the SEQUENCE in keyfile is returned apart and dropped by the caller
decode_integer_sequence(keyfile, count) ==
    LET t == read_tlv(keyfile)
    IN  IF ~t.ok \/ t.tag # TagSequence
        THEN [ok |-> FALSE, values |-> <<>>]
        ELSE LET r == read_integers(t.content)
             IN  IF r.ok /\ Len(r.values) = count THEN r
                 ELSE [ok |-> FALSE, values |-> <<>>]

\* the arcs of an OBJECT IDENTIFIER's content octets
RECURSIVE oid_arcs(_, _, _)
oid_arcs(content, acc, first) ==
    IF content = <<>> THEN <<>>
    ELSE LET v == acc * 128 + (Head(content) % 128)
         IN  IF Head(content) >= 128
             THEN oid_arcs(Tail(content), v, first)
             ELSE (IF first THEN <<v \div 40, v % 40>> ELSE <<v>>)
                  \o oid_arcs(Tail(content), 0, FALSE)

\* 1.2.840.113549.1.1.1, rsaEncryption
RsaEncryptionOid == <<1, 2, 840, 113549, 1, 1, 1>>

\* decoder.decode(keyfile, asn1Spec=OpenSSLPubKey()):
\* SEQUENCE { SEQUENCE { OID, NULL }, BIT STRING }
decode_openssl_pubkey(keyfile) ==
    LET outer == read_tlv(keyfile)
        header == read_tlv(outer.content)
        oid == read_tlv(header.content)
        key == read_tlv(header.rest)
    IN  IF /\ outer.ok /\ outer.tag = TagSequence
           /\ header.ok /\ header.tag = TagSequence
           /\ oid.ok /\ oid.tag = TagOid
           /\ key.ok /\ key.tag = TagBitString /\ key.rest = <<>>
        THEN [ok |-> TRUE, oid |-> oid_arcs(oid.content, 0, TRUE),
              key |-> key.content]
        ELSE [ok |-> FALSE, oid |-> <<>>, key |-> <<>>]

\* the base64 alphabet and padding
B64Alphabet ==
    <<"A", "B", "C", "D", "E", "F", "G", "H", "I", "J", "K", "L", "M",
      "N", "O", "P", "Q", "R", "S", "T", "U", "V", "W", "X", "Y", "Z",
      "a", "b", "c", "d", "e", "f", "g", "h", "i", "j", "k", "l", "m",
      "n", "o", "p", "q", "r", "s", "t", "u", "v", "w", "x", "y", "z",
      "0", "1", "2", "3", "4", "5", "6", "7", "8", "9", "+", "/">>

b64char(v) == B64Alphabet[v + 1]
b64value(c) == CHOOSE v \in 0..63 : B64Alphabet[v + 1] = c

RECURSIVE b64encode(_)
b64encode(b) ==
    IF b = <<>> THEN <<>>
    ELSE IF Len(b) = 1
    THEN <<b64char(b[1] \div 4), b64char((b[1] % 4) * 16), "=", "=">>
    ELSE IF Len(b) = 2
    THEN <<b64char(b[1] \div 4), b64char((b[1] % 4) * 16 + b[2] \div 16),
           b64char((b[2] % 16) * 4), "=">>
    ELSE <<b64char(b[1] \div 4), b64char((b[1] % 4) * 16 + b[2] \div 16),
           b64char((b[2] % 16) * 4 + b[3] \div 64), b64char(b[3] % 64)>>
         \o b64encode(SubSeq(b, 4, Len(b)))

RECURSIVE b64decode(_)
b64decode(c) ==
    IF Len(c) < 4 THEN <<>>
    ELSE LET v1 == b64value(c[1])
             v2 == b64value(c[2])
         IN  IF c[3] = "=" THEN <<v1 * 4 + v2 \div 16>>
             ELSE LET v3 == b64value(c[3])
                  IN  IF c[4] = "="
                      THEN <<v1 * 4 + v2 \div 16, (v2 % 16) * 16 + v3 \div 4>>
                      ELSE <<v1 * 4 + v2 \div 16, (v2 % 16) * 16 + v3 \div 4,
                             (v3 % 4) * 64 + b64value(c[4])>>
                           \o b64decode(SubSeq(c, 5, Len(c)))

RECURSIVE pem_lines(_)
pem_lines(chars) ==
    IF Len(chars) <= PemLineLength THEN <<chars>>
    ELSE <<SubSeq(chars, 1, PemLineLength)>>
         \o pem_lines(SubSeq(chars, PemLineLength + 1, Len(chars)))

\* pem.save_pem(contents, pem_marker): the BEGIN line, the base64 text in
\* lines of 64 characters, the END line
save_pem(contents, pem_marker) ==
    [begin |-> pem_marker, lines |-> pem_lines(b64encode(contents)),
     end |-> pem_marker]

\* a key with its integer fields as big-endian digits
KeyBytes(key) ==
    IF key.type = "PublicKey"
    THEN [type |-> "PublicKey", n |-> int_to_bytes(key.n), e |-> int_to_bytes(key.e)]
    ELSE [type |-> "PrivateKey", n |-> int_to_bytes(key.n), e |-> int_to_bytes(key.e),
          d |-> int_to_bytes(key.d), p |-> int_to_bytes(key.p),
          q |-> int_to_bytes(key.q), exp1 |-> int_to_bytes(key.exp1),
          exp2 |-> int_to_bytes(key.exp2), coef |-> int_to_bytes(key.coef)]

(***************************************************************************)
(* The codec entry points and the object protocol of the key classes.      *)
(***************************************************************************)
Formats == {"PEM", "DER", "XML"}

Failed(e) == [ok |-> FALSE, error |-> e, value |-> <<>>]
Value(v) == [ok |-> TRUE, error |-> "none", value |-> v]

\* _assert_format_exists(file_format, methods), methods keyed "PEM" and "DER":
\* the message of the ValueError lists the sorted keys
assert_format_exists(file_format) ==
    IF file_format \in {"PEM", "DER"}
    THEN [ok |-> TRUE, method |-> file_format, error |-> "none", formats |-> <<>>]
    ELSE [ok |-> FALSE, method |-> "none", error |-> "ValueError: Unsupported format",
          formats |-> <<"DER", "PEM">>]

\* PublicKey._save_pkcs1_der with publicExponent set before modulus
PublicKey_save_pkcs1_der_swapped(key) ==
    der_sequence(<<der_integer(key.e), der_integer(key.n)>>)

PublicKey_save_pkcs1_der(key) ==
    der_sequence(<<der_integer(key.n), der_integer(key.e)>>)

PrivateKey_save_pkcs1_der(key) ==
    der_sequence(<<der_integer(<<0>>), der_integer(key.n), der_integer(key.e),
                   der_integer(key.d), der_integer(key.p), der_integer(key.q),
                   der_integer(key.exp1), der_integer(key.exp2),
                   der_integer(key.coef)>>)

save_pkcs1_der(key) ==
    IF key.type = "PublicKey" THEN PublicKey_save_pkcs1_der(key)
    ELSE PrivateKey_save_pkcs1_der(key)

pem_marker(type) ==
    IF type = "PublicKey" THEN "RSA PUBLIC KEY" ELSE "RSA PRIVATE KEY"

save_pkcs1_pem(key) == save_pem(save_pkcs1_der(key), pem_marker(key.type))

save_pkcs1(key, format) ==
    LET m == assert_format_exists(format)
    IN  IF ~m.ok THEN [Failed(m.error) EXCEPT !.value = m.formats]
        ELSE IF m.method = "PEM" THEN Value(save_pkcs1_pem(key))
        ELSE Value(save_pkcs1_der(key))

\* AbstractKey.load_pkcs1: the body raises before any dispatch
load_pkcs1(cls, keyfile, format) == Failed("NotImplementedError")

PublicKey_load_pkcs1_der(keyfile) ==
    LET r == decode_integer_sequence(keyfile, 2)
    IN  IF ~r.ok THEN Failed("PyAsn1Error")
        ELSE Value(PublicKey(r.values[1], r.values[2]))

\* load_pkcs1_openssl_der handing the whole BIT STRING content on
load_pkcs1_openssl_der_whole(keyfile) ==
    LET keyinfo == decode_openssl_pubkey(keyfile)
    IN  IF ~keyinfo.ok THEN Failed("PyAsn1Error")
        ELSE IF keyinfo.oid # RsaEncryptionOid THEN Failed("TypeError")
        ELSE PublicKey_load_pkcs1_der(keyinfo.key)

load_pkcs1_openssl_der(keyfile) ==
    LET keyinfo == decode_openssl_pubkey(keyfile)
    IN  IF ~keyinfo.ok THEN Failed("PyAsn1Error")
        ELSE IF keyinfo.oid # RsaEncryptionOid THEN Failed("TypeError")
        ELSE PublicKey_load_pkcs1_der(Tail(keyinfo.key))

None == [type |-> "None"]

PublicKey_getstate(self) == <<self.n, self.e>>

PublicKey_setstate(self, state) == [self EXCEPT !.n = state[1], !.e = state[2]]

PrivateKey_getstate(self) ==
    <<self.n, self.e, self.d, self.p, self.q, self.exp1, self.exp2, self.coef>>

\* __setstate__ that keeps the CRT fields computed at construction
PrivateKey_setstate_keep_crt(self, state) ==
    [self EXCEPT !.n = state[1], !.e = state[2], !.d = state[3],
                 !.p = state[4], !.q = state[5]]

PrivateKey_setstate(self, state) ==
    [self EXCEPT !.n = state[1], !.e = state[2], !.d = state[3],
                 !.p = state[4], !.q = state[5], !.exp1 = state[6],
                 !.exp2 = state[7], !.coef = state[8]]

PublicKey_eq(self, other) ==
    IF other = None THEN FALSE
    ELSE IF other.type # "PublicKey" THEN FALSE
    ELSE self.n = other.n /\ self.e = other.e

\* PrivateKey.__eq__ comparing the five constructor arguments only
PrivateKey_eq_constructor_args(self, other) ==
    IF other = None THEN FALSE
    ELSE IF other.type # "PrivateKey" THEN FALSE
    ELSE /\ self.n = other.n /\ self.e = other.e /\ self.d = other.d
         /\ self.p = other.p /\ self.q = other.q

PrivateKey_eq(self, other) ==
    IF other = None THEN FALSE
    ELSE IF other.type # "PrivateKey" THEN FALSE
    ELSE /\ self.n = other.n /\ self.e = other.e /\ self.d = other.d
         /\ self.p = other.p /\ self.q = other.q /\ self.exp1 = other.exp1
         /\ self.exp2 = other.exp2 /\ self.coef = other.coef

key_eq(self, other) ==
    IF self.type = "PublicKey" THEN PublicKey_eq(self, other)
    ELSE PrivateKey_eq(self, other)

key_ne(self, other) == ~key_eq(self, other)

\* hash(t) of a tuple of integers: a function of the items in their order,
\* folded into a fixed range
HashRange == 1021

RECURSIVE tuple_hash(_)
tuple_hash(t) ==
    IF t = <<>> THEN 7
    ELSE (tuple_hash(SubSeq(t, 1, Len(t) - 1)) * 31 + (t[Len(t)] % HashRange)) % HashRange

key_getstate(self) ==
    IF self.type = "PublicKey" THEN PublicKey_getstate(self)
    ELSE PrivateKey_getstate(self)

key_setstate(self, state) ==
    IF self.type = "PublicKey" THEN PublicKey_setstate(self, state)
    ELSE PrivateKey_setstate(self, state)

key_hash(self) == tuple_hash(key_getstate(self))

NoArgs == [entry |-> "none", nbits |-> 0, accurate |-> TRUE, poolsize |-> 1,
           exponent |-> DEFAULT_EXPONENT, log_level |-> "INFO"]
NoRet == [kind |-> "none", error |-> "none", p |-> 0, q |-> 0]
NoOut == [op |-> "none"]
NoResample == [count |-> 0, last |-> "none"]
NoDigest == [op |-> "none", obj |-> 0, value |-> <<>>]
NoSha == [objs |-> <<>>, shared |-> FALSE, streams |-> <<>>, ops |-> 0,
          digests |-> 0, last |-> NoDigest]
NoWrite == [done |-> FALSE, x |-> 0, y |-> 0, bit |-> 0, byte |-> 0, i |-> 0]
NoPbm == [pc |-> "idle", width |-> 0, height |-> 0, file |-> <<>>, pos |-> 0,
          x |-> 0, y |-> 0, in_char |-> 0, i |-> 0, write |-> NoWrite]
Raised(e) == [kind |-> "error", error |-> e, p |-> 0, q |-> 0]

\* the nbits find_p_q runs with: gen_keys passes nbits // 2
FindBits == IF args.entry = "newkeys" THEN args.nbits \div 2 ELSE args.nbits

Exponents == {2, 3, DEFAULT_EXPONENT}
SmallPrimes == {x \in 2..MaxSmallPrime : IsPrime(x)}
SmallExponents == {3, 5, 7, DEFAULT_EXPONENT}
LogLevels == {"INFO", "DEBUG"}

\* the valid private keys over the small primes, built as newkeys builds them
KeyMaterial ==
    {t \in SmallPrimes \X SmallPrimes \X SmallExponents :
        t[1] > t[2] /\ calculate_keys_custom_exponent(t[1], t[2], t[3]).ok}

ValidKeys ==
    {newkeys_build(t[1], t[2], t[3],
                   calculate_keys_custom_exponent(t[1], t[2], t[3]).d).priv.key :
        t \in KeyMaterial}

\* the key of the docstring of PublicKey._load_pkcs1_der,
\* PublicKey(2367317549, 65537), and its base64 text
DocPublicKey == PublicKey(<<141, 26, 102, 45>>, <<1, 0, 1>>)

DocBase64 ==
    <<"M", "A", "w", "C", "B", "Q", "C", "N", "G", "m", "Y", "t", "A", "g",
      "M", "B", "A", "A", "E", "=">>

\* the keys handed to the codec
CodecPublicKeys ==
    {KeyBytes(PublicKey(k.n, k.e)) : k \in ValidKeys} \cup {DocPublicKey}

CodecKeys == CodecPublicKeys \cup {KeyBytes(k) : k \in ValidKeys}

\* the files handed to PublicKey._load_pkcs1_der: encoded keys, whole, cut
\* short, and followed by one more byte, and the file of the docstring
PublicDerFiles ==
    LET whole == {PublicKey_save_pkcs1_der(k) : k \in CodecPublicKeys}
    IN  whole \cup {SubSeq(f, 1, Len(f) - 1) : f \in whole}
              \cup {Append(f, 0) : f \in whole}
              \cup {b64decode(DocBase64)}

\* content octets of 1.2.840.113549.1.1.1 (rsaEncryption),
\* 1.2.840.113549.1.1.11 (sha256WithRSAEncryption) and 1.2.840.10040.4.1 (dsa)
OidContents ==
    {<<42, 134, 72, 134, 247, 13, 1, 1, 1>>,
     <<42, 134, 72, 134, 247, 13, 1, 1, 11>>,
     <<42, 134, 72, 206, 56, 4, 1>>}

\* an OpenSSL public key file: SEQUENCE { SEQUENCE { OID, NULL }, BIT STRING }
\* whose BIT STRING holds the count of unused bits and then the PKCS#1 file
openssl_der(oid_content, pkcs1) ==
    der_sequence(<<der_sequence(<<der_tlv(TagOid, oid_content),
                                  der_tlv(TagNull, <<>>)>>),
                   der_tlv(TagBitString, <<0>> \o pkcs1)>>)

Init ==
    /\ pc = "idle"
    /\ args = NoArgs
    /\ p = 0 /\ q = 0 /\ change_p = FALSE
    /\ requested = {}
    /\ logLevel = "INFO"
    /\ levelBefore = "INFO"
    /\ logged = {}
    /\ ret = NoRet
    /\ pub = NoKey /\ priv = NoKey
    /\ input = <<>>
    /\ resampled = NoResample
    /\ sha = NoSha /\ pbm = NoPbm
    /\ attempts = 0
    /\ out = NoOut
    /\ hist = <<>> /\ msg = 0 /\ rnd = 0 /\ val = 0 /\ kerr = "none"

\* newkeys(nbits, accurate, poolsize, exponent, log_level), to the start of gen_keys
NewkeysCall ==
    /\ pc = "idle"
    /\ \E nbits \in (MinKeyBits - 1)..MaxNbits, accurate \in BOOLEAN,
          poolsize \in {0, 1}, exponent \in Exponents, log_level \in LogLevels :
         LET r == newkeys_entry(nbits, poolsize, log_level, logLevel)
         IN  /\ args' = [entry |-> "newkeys", nbits |-> nbits,
                         accurate |-> accurate, poolsize |-> poolsize,
                         exponent |-> exponent, log_level |-> log_level]
             /\ levelBefore' = logLevel
             /\ logLevel' = r.level
             /\ IF r.error # "none"
                THEN pc' = "done" /\ ret' = Raised(r.error)
                ELSE pc' = "find_p_q" /\ ret' = NoRet
    /\ UNCHANGED <<p, q, change_p, requested, logged, pub, priv, input>>
    /\ UNCHANGED <<keyVars, libVars, attempts, out, resampled>>

\* find_p_q(nbits, getprime, accurate) called on its own
FindPQCall ==
    /\ pc = "idle"
    /\ \E nbits \in (2..(MaxNbits \div 2)) \cup {ShiftDivisor},
          accurate \in BOOLEAN :
         args' = [NoArgs EXCEPT !.entry = "find_p_q", !.nbits = nbits,
                                !.accurate = accurate]
    /\ levelBefore' = logLevel
    /\ pc' = "find_p_q"
    /\ UNCHANGED <<p, q, change_p, requested, logLevel, logged, ret, pub,
                   priv, input>>
    /\ UNCHANGED <<keyVars, libVars, attempts, out, resampled>>

\* find_p_q starting with change_p = True: the first re-sample replaces p
FindPQSample_p_first ==
    /\ pc = "find_p_q"
    /\ \E pp \in getprime(pbits(FindBits)), qq \in getprime(qbits(FindBits)) :
         /\ p' = pp
         /\ q' = qq
    /\ change_p' = TRUE
    /\ requested' = requested \cup {<<"p", pbits(FindBits)>>,
                                     <<"q", qbits(FindBits)>>}
    /\ logged' = log_debug(logLevel, "Finding q",
                           log_debug(logLevel, "Finding p", logged))
    /\ attempts' = IF args.entry = "newkeys"
                   THEN Min2(attempts + 1, MaxAttempts)
                   ELSE attempts
    /\ pc' = "loop"
    /\ UNCHANGED <<args, logLevel, levelBefore, ret, pub, priv, input>>
    /\ resampled' = NoResample
    /\ UNCHANGED <<keyVars, libVars, out>>


\* find_p_q: the two initial primes, change_p = False
FindPQSample ==
    /\ pc = "find_p_q"
    /\ \E pp \in getprime(pbits(FindBits)), qq \in getprime(qbits(FindBits)) :
         /\ p' = pp
         /\ q' = qq
    /\ change_p' = FALSE
    /\ requested' = requested \cup {<<"p", pbits(FindBits)>>,
                                     <<"q", qbits(FindBits)>>}
    /\ logged' = log_debug(logLevel, "Finding q",
                           log_debug(logLevel, "Finding p", logged))
    /\ attempts' = IF args.entry = "newkeys"
                   THEN Min2(attempts + 1, MaxAttempts)
                   ELSE attempts
    /\ pc' = "loop"
    /\ UNCHANGED <<args, logLevel, levelBefore, ret, pub, priv, input>>
    /\ resampled' = NoResample
    /\ UNCHANGED <<keyVars, libVars, out>>

\* a re-sampling loop with a retry bound: after one re-sample it gives up
FindPQResample_bounded ==
    /\ pc = "loop"
    /\ ~is_acceptable(p, q, args.accurate, FindBits)
    /\ IF change_p
       THEN /\ pc' = "done"
            /\ ret' = Raised("ValueError")
            /\ UNCHANGED <<p, q, change_p, requested, resampled>>
       ELSE /\ \E qq \in getprime(qbits(FindBits)) : q' = qq
            /\ requested' = requested \cup {<<"q", qbits(FindBits)>>}
            /\ change_p' = TRUE
            /\ UNCHANGED <<pc, p, ret, resampled>>
    /\ UNCHANGED <<args, logLevel, levelBefore, logged, pub, priv, input>>
    /\ UNCHANGED <<keyVars, libVars, attempts, out>>

\* find_p_q: one iteration of "while not is_acceptable(p, q)"
FindPQResample ==
    /\ pc = "loop"
    /\ ~is_acceptable(p, q, args.accurate, FindBits)
    /\ IF change_p
       THEN /\ \E pp \in getprime(pbits(FindBits)) : p' = pp
            /\ q' = q
            /\ requested' = requested \cup {<<"p", pbits(FindBits)>>}
       ELSE /\ \E qq \in getprime(qbits(FindBits)) : q' = qq
            /\ p' = p
            /\ requested' = requested \cup {<<"q", qbits(FindBits)>>}
    /\ change_p' = ~change_p
    /\ resampled' = IF args.entry = "find_p_q"
                    THEN [count |-> Min2(resampled.count + 1, MaxResamples),
                          last |-> IF change_p THEN "p" ELSE "q"]
                    ELSE resampled
    /\ UNCHANGED <<pc, args, logLevel, levelBefore, logged, ret, pub, priv, input>>
    /\ UNCHANGED <<keyVars, libVars, attempts, out>>

\* find_p_q called on its own returns max(p, q), min(p, q)
FindPQReturn ==
    /\ pc = "loop"
    /\ args.entry = "find_p_q"
    /\ is_acceptable(p, q, args.accurate, FindBits)
    /\ LET r == find_p_q_return(p, q)
       IN  ret' = [kind |-> "pq", error |-> "none", p |-> r.p, q |-> r.q]
    /\ pc' = "done"
    /\ UNCHANGED <<args, p, q, change_p, requested, logLevel, levelBefore,
                   logged, pub, priv, input>>
    /\ UNCHANGED <<keyVars, libVars, attempts, out, resampled>>

\* gen_keys without the "except ValueError" clause: the error reaches the caller
GenKeysRetry_surfacing ==
    /\ pc = "loop"
    /\ args.entry = "newkeys"
    /\ is_acceptable(p, q, args.accurate, FindBits)
    /\ LET r == find_p_q_return(p, q)
           k == calculate_keys_custom_exponent(r.p, r.q, args.exponent)
       IN  /\ ~k.ok
           /\ ret' = Raised(k.error)
    /\ pc' = "done"
    /\ UNCHANGED <<args, p, q, change_p, requested, logLevel, levelBefore,
                   logged, pub, priv, input>>
    /\ UNCHANGED <<keyVars, libVars, attempts, out, resampled>>

\* gen_keys: find_p_q returned, calculate_keys_custom_exponent raised a
\* ValueError: the loop starts over with a new find_p_q call
GenKeysRetry ==
    /\ pc = "loop"
    /\ args.entry = "newkeys"
    /\ is_acceptable(p, q, args.accurate, FindBits)
    /\ LET r == find_p_q_return(p, q)
       IN  ~calculate_keys_custom_exponent(r.p, r.q, args.exponent).ok
    /\ pc' = "find_p_q"
    /\ p' = 0 /\ q' = 0 /\ change_p' = FALSE
    /\ UNCHANGED <<args, requested, logLevel, levelBefore, logged, ret, pub,
                   priv, input>>
    /\ UNCHANGED <<keyVars, libVars, attempts, out, resampled>>

\* gen_keys returns (p, q, e, d) and newkeys builds the key objects
NewkeysReturn ==
    /\ pc = "loop"
    /\ args.entry = "newkeys"
    /\ is_acceptable(p, q, args.accurate, FindBits)
    /\ LET r == find_p_q_return(p, q)
           k == calculate_keys_custom_exponent(r.p, r.q, args.exponent)
           b == newkeys_build(r.p, r.q, k.e, k.d)
       IN  /\ k.ok
           /\ IF b.priv.ok
              THEN /\ pub' = b.pub
                   /\ priv' = b.priv.key
                   /\ ret' = [kind |-> "keys", error |-> "none",
                              p |-> r.p, q |-> r.q]
              ELSE /\ pub' = NoKey
                   /\ priv' = NoKey
                   /\ ret' = Raised(b.priv.error)
    /\ pc' = "done"
    /\ UNCHANGED <<args, p, q, change_p, requested, logLevel, levelBefore,
                   logged, input>>
    /\ UNCHANGED <<keyVars, libVars, attempts, out, resampled>>

\* PrivateKey(n, e, d, p, q) called with the caller's integers
CtorInputs ==
    {<<pp * qq + dn, e, d, pp, qq>> :
        pp \in 1..MaxCtorArg, qq \in 1..MaxCtorArg, d \in 1..MaxCtorArg,
        e \in {3, DEFAULT_EXPONENT}, dn \in {0, 1}}

PrivateKeyCall ==
    /\ pc = "idle"
    /\ \E a \in CtorInputs :
         LET k == PrivateKey(a[1], a[2], a[3], a[4], a[5])
         IN  /\ input' = a
             /\ priv' = k.key
             /\ ret' = IF k.ok
                       THEN [kind |-> "key", error |-> "none", p |-> 0, q |-> 0]
                       ELSE Raised(k.error)
    /\ args' = [NoArgs EXCEPT !.entry = "PrivateKey"]
    /\ levelBefore' = logLevel
    /\ pc' = "done"
    /\ UNCHANGED <<p, q, change_p, requested, logLevel, logged, pub>>
    /\ UNCHANGED <<keyVars, libVars, attempts, out, resampled>>

\* PrivateKey._load_pkcs1_der(keyfile), keyfile decoding to the sequence priv
LoadPkcs1DerCall ==
    /\ pc = "idle"
    /\ \E a \in CtorInputs, version \in {0, 1}, exp1 \in 0..MaxCtorArg,
          exp2 \in 0..MaxCtorArg, coef \in 0..MaxCtorArg :
         LET seq == <<version>> \o a \o <<exp1, exp2, coef>>
             r == load_pkcs1_der(seq, logLevel)
         IN  /\ input' = seq
             /\ priv' = r.key
             /\ logged' = r.logged
             /\ ret' = IF r.ok
                       THEN [kind |-> "key", error |-> "none", p |-> 0, q |-> 0]
                       ELSE Raised(r.error)
    /\ args' = [NoArgs EXCEPT !.entry = "load_pkcs1_der"]
    /\ levelBefore' = logLevel
    /\ pc' = "done"
    /\ UNCHANGED <<p, q, change_p, requested, logLevel, pub>>
    /\ UNCHANGED <<keyVars, libVars, attempts, out, resampled>>

\* calculate_keys_custom_exponent(p, q, exponent) and calculate_keys(p, q)
\* called on their own, with the primes find_p_q can return
CalcExponents == (2..(MaxSmallPrime + 1)) \cup {DEFAULT_EXPONENT}

CalculateKeysCall ==
    /\ pc = "idle"
    /\ \E pp \in SmallPrimes, qq \in SmallPrimes, exponent \in CalcExponents,
          fn \in {"calculate_keys_custom_exponent", "calculate_keys"} :
         /\ pp > qq
         /\ fn = "calculate_keys" => exponent = DEFAULT_EXPONENT
         /\ args' = [NoArgs EXCEPT !.entry = fn, !.exponent = exponent]
         /\ out' = [op |-> fn, p |-> pp, q |-> qq, exponent |-> exponent,
                    result |-> IF fn = "calculate_keys"
                               THEN calculate_keys(pp, qq)
                               ELSE calculate_keys_custom_exponent(pp, qq, exponent)]
         /\ ret' = [kind |-> "value", error |-> "none", p |-> pp, q |-> qq]
    /\ levelBefore' = logLevel
    /\ pc' = "done"
    /\ UNCHANGED <<p, q, change_p, requested, logLevel, logged, pub, priv,
                   input, attempts>>
    /\ UNCHANGED <<keyVars, libVars, resampled>>

Outcome(r) ==
    [NoRet EXCEPT !.kind = IF r.ok THEN "value" ELSE "error", !.error = r.error]

\* key.save_pkcs1(format)
SavePkcs1Call ==
    /\ pc = "idle"
    /\ \E key \in CodecKeys, format \in Formats :
         LET r == save_pkcs1(key, format)
         IN  /\ args' = [NoArgs EXCEPT !.entry = "save_pkcs1"]
             /\ out' = [op |-> "save_pkcs1", key |-> key, format |-> format,
                        result |-> r]
             /\ ret' = Outcome(r)
    /\ levelBefore' = logLevel
    /\ pc' = "done"
    /\ UNCHANGED <<p, q, change_p, requested, logLevel, logged, pub, priv,
                   input, attempts>>
    /\ UNCHANGED <<keyVars, libVars, resampled>>

\* cls.load_pkcs1(keyfile, format) on a file that key.save_pkcs1 wrote
LoadPkcs1Call ==
    /\ pc = "idle"
    /\ \E key \in CodecKeys, saved \in {"PEM", "DER"}, format \in Formats :
         LET keyfile == save_pkcs1(key, saved).value
             r == load_pkcs1(key.type, keyfile, format)
         IN  /\ args' = [NoArgs EXCEPT !.entry = "load_pkcs1"]
             /\ out' = [op |-> "load_pkcs1", key |-> key, saved |-> saved,
                        format |-> format, keyfile |-> keyfile, result |-> r]
             /\ ret' = Outcome(r)
    /\ levelBefore' = logLevel
    /\ pc' = "done"
    /\ UNCHANGED <<p, q, change_p, requested, logLevel, logged, pub, priv,
                   input, attempts>>
    /\ UNCHANGED <<keyVars, libVars, resampled>>

\* PublicKey._load_pkcs1_der(keyfile)
PublicLoadDerCall ==
    /\ pc = "idle"
    /\ \E keyfile \in PublicDerFiles :
         LET r == PublicKey_load_pkcs1_der(keyfile)
         IN  /\ args' = [NoArgs EXCEPT !.entry = "PublicKey._load_pkcs1_der"]
             /\ out' = [op |-> "PublicKey._load_pkcs1_der", keyfile |-> keyfile,
                        result |-> r]
             /\ ret' = Outcome(r)
    /\ levelBefore' = logLevel
    /\ pc' = "done"
    /\ UNCHANGED <<p, q, change_p, requested, logLevel, logged, pub, priv,
                   input, attempts>>
    /\ UNCHANGED <<keyVars, libVars, resampled>>

\* PublicKey.load_pkcs1_openssl_der(keyfile)
OpensslDerCall ==
    /\ pc = "idle"
    /\ \E key \in CodecPublicKeys, oid \in OidContents :
         LET pkcs1 == PublicKey_save_pkcs1_der(key)
             keyfile == openssl_der(oid, pkcs1)
             r == load_pkcs1_openssl_der(keyfile)
         IN  /\ args' = [NoArgs EXCEPT !.entry = "load_pkcs1_openssl_der"]
             /\ out' = [op |-> "load_pkcs1_openssl_der", key |-> key,
                        oid |-> oid, pkcs1 |-> pkcs1, keyfile |-> keyfile,
                        result |-> r]
             /\ ret' = Outcome(r)
    /\ levelBefore' = logLevel
    /\ pc' = "done"
    /\ UNCHANGED <<p, q, change_p, requested, logLevel, logged, pub, priv,
                   input, attempts>>
    /\ UNCHANGED <<keyVars, libVars, resampled>>

\* the caller drops the results; the module logger keeps its level
Return ==
    /\ pc = "done"
    /\ pc' = "idle"
    /\ args' = NoArgs
    /\ p' = 0 /\ q' = 0 /\ change_p' = FALSE
    /\ requested' = {}
    /\ logged' = {}
    /\ levelBefore' = logLevel
    /\ ret' = NoRet
    /\ pub' = NoKey /\ priv' = NoKey
    /\ input' = <<>>
    /\ attempts' = 0
    /\ out' = NoOut
    /\ resampled' = NoResample
    /\ UNCHANGED logLevel
    /\ UNCHANGED <<keyVars, libVars>>

Next ==
    \/ NewkeysCall
    \/ FindPQCall
    \/ FindPQSample
    \/ FindPQResample
    \/ FindPQReturn
    \/ GenKeysRetry
    \/ NewkeysReturn
    \/ PrivateKeyCall
    \/ LoadPkcs1DerCall
    \/ CalculateKeysCall
    \/ SavePkcs1Call
    \/ LoadPkcs1Call
    \/ PublicLoadDerCall
    \/ OpensslDerCall
    \/ Return

Spec == Init /\ [][Next]_vars

(***************************************************************************)
(* SpecKey: the integer operations of one valid private key.  The key is   *)
(* built the way newkeys builds it, from small primes; msg is the integer  *)
(* the caller starts from and rnd the r it passes to blind and unblind.    *)
(***************************************************************************)
\* the compositions of the key operations that are explored
Pipelines ==
    {<<"encrypt", "decrypt">>,
     <<"blind", "unblind">>,
     <<"encrypt", "blind", "decrypt", "unblind">>,
     <<"blinded_decrypt">>,
     <<"encrypt", "blinded_decrypt">>,
     <<"blinded_encrypt">>,
     <<"save_pkcs1">>,
     <<"__getstate__">>,
     <<"__setstate__">>,
     <<"__eq__">>,
     <<"__ne__">>,
     <<"__hash__">>}

IsPrefix(s, t) == Len(s) <= Len(t) /\ SubSeq(t, 1, Len(s)) = s

CanApply(op) ==
    /\ kerr = "none"
    /\ \E t \in Pipelines : IsPrefix(Append(hist, op), t)

InitKey ==
    /\ pc = "idle"
    /\ args = NoArgs
    /\ p = 0 /\ q = 0 /\ change_p = FALSE
    /\ requested = {}
    /\ logLevel = "INFO"
    /\ levelBefore = "INFO"
    /\ logged = {}
    /\ ret = NoRet
    /\ input = <<>>
    /\ resampled = NoResample
    /\ sha = NoSha /\ pbm = NoPbm
    /\ attempts = 0
    /\ out = NoOut
    /\ priv \in ValidKeys
    /\ pub = PublicKey(priv.n, priv.e)
    /\ msg \in 0..(priv.n - 1)
    /\ rnd \in 1..(priv.n - 1)
    /\ val = msg
    /\ hist = <<>>
    /\ kerr = "none"

EncryptInt ==
    /\ CanApply("encrypt")
    /\ val' = encrypt_int(val, priv.e, priv.n)
    /\ hist' = Append(hist, "encrypt")
    /\ UNCHANGED <<msg, rnd, kerr, priv>>
    /\ UNCHANGED <<genVars, libVars, attempts, out, resampled>>

DecryptInt ==
    /\ CanApply("decrypt")
    /\ val' = decrypt_int(val, priv.d, priv.n)
    /\ hist' = Append(hist, "decrypt")
    /\ UNCHANGED <<msg, rnd, kerr, priv>>
    /\ UNCHANGED <<genVars, libVars, attempts, out, resampled>>

Blind ==
    /\ CanApply("blind")
    /\ val' = blind(priv, val, rnd)
    /\ hist' = Append(hist, "blind")
    /\ UNCHANGED <<msg, rnd, kerr, priv>>
    /\ UNCHANGED <<genVars, libVars, attempts, out, resampled>>

Unblind ==
    /\ CanApply("unblind")
    /\ LET u == unblind(priv, val, rnd)
       IN  /\ val' = IF u.ok THEN u.value ELSE val
           /\ kerr' = u.error
    /\ hist' = Append(hist, "unblind")
    /\ UNCHANGED <<msg, rnd, priv>>
    /\ UNCHANGED <<genVars, libVars, attempts, out, resampled>>

BlindedDecrypt ==
    /\ CanApply("blinded_decrypt")
    /\ \E blind_r \in randint(priv.n - 1) :
         LET u == blinded_decrypt(priv, val, blind_r)
         IN  /\ rnd' = blind_r
             /\ val' = IF u.ok THEN u.value ELSE val
             /\ kerr' = u.error
    /\ hist' = Append(hist, "blinded_decrypt")
    /\ UNCHANGED <<msg, priv>>
    /\ UNCHANGED <<genVars, libVars, attempts, out, resampled>>

BlindedEncrypt ==
    /\ CanApply("blinded_encrypt")
    /\ \E blind_r \in randint(priv.n - 1) :
         LET u == blinded_encrypt(priv, val, blind_r)
         IN  /\ rnd' = blind_r
             /\ val' = IF u.ok THEN u.value ELSE val
             /\ kerr' = u.error
    /\ hist' = Append(hist, "blinded_encrypt")
    /\ UNCHANGED <<msg, priv>>
    /\ UNCHANGED <<genVars, libVars, attempts, out, resampled>>

\* the key object an operation is called on
Self(which) == IF which = "pub" THEN pub ELSE priv

\* the field names of a key, in the order of __getstate__
Fields(key) ==
    IF key.type = "PublicKey" THEN <<"n", "e">>
    ELSE <<"n", "e", "d", "p", "q", "exp1", "exp2", "coef">>

\* the objects a key is compared with: itself, None, the key of the other
\* class, and the keys that differ from it in one field
Others(which) ==
    {Self(which), None, IF which = "pub" THEN priv ELSE pub}
      \cup {[Self(which) EXCEPT ![Fields(Self(which))[i]] = @ + 1] :
               i \in 1..Len(Fields(Self(which)))}

\* the tuples handed to __setstate__: the key's own state and the states that
\* differ from it in one item
States(which) ==
    {key_getstate(Self(which))}
      \cup {[key_getstate(Self(which)) EXCEPT ![i] = @ + 1] :
               i \in 1..Len(Fields(Self(which)))}

SavePkcs1 ==
    /\ CanApply("save_pkcs1")
    /\ \E which \in {"pub", "priv"}, format \in Formats :
         out' = [op |-> "save_pkcs1", self |-> which, arg |-> format,
                 result |-> save_pkcs1(KeyBytes(Self(which)), format)]
    /\ hist' = Append(hist, "save_pkcs1")
    /\ UNCHANGED <<msg, rnd, val, kerr, priv>>
    /\ UNCHANGED <<genVars, libVars, attempts, resampled>>

GetState ==
    /\ CanApply("__getstate__")
    /\ \E which \in {"pub", "priv"} :
         out' = [op |-> "__getstate__", self |-> which, arg |-> None,
                 result |-> key_getstate(Self(which))]
    /\ hist' = Append(hist, "__getstate__")
    /\ UNCHANGED <<msg, rnd, val, kerr, priv>>
    /\ UNCHANGED <<genVars, libVars, attempts, resampled>>

SetState ==
    /\ CanApply("__setstate__")
    /\ \E which \in {"pub", "priv"} :
         \E state \in States(which) :
            /\ out' = [op |-> "__setstate__", self |-> which, arg |-> state,
                       result |-> None]
            /\ pub' = IF which = "pub" THEN key_setstate(pub, state) ELSE pub
            /\ priv' = IF which = "priv" THEN key_setstate(priv, state) ELSE priv
    /\ hist' = Append(hist, "__setstate__")
    /\ UNCHANGED <<msg, rnd, val, kerr>>
    /\ UNCHANGED <<pc, args, p, q, change_p, requested, logLevel, levelBefore,
                   logged, ret, input, attempts, resampled>>
    /\ UNCHANGED libVars

KeyEq ==
    /\ CanApply("__eq__")
    /\ \E which \in {"pub", "priv"} :
         \E other \in Others(which) :
            out' = [op |-> "__eq__", self |-> which, arg |-> other,
                    result |-> key_eq(Self(which), other)]
    /\ hist' = Append(hist, "__eq__")
    /\ UNCHANGED <<msg, rnd, val, kerr, priv>>
    /\ UNCHANGED <<genVars, libVars, attempts, resampled>>

KeyNe ==
    /\ CanApply("__ne__")
    /\ \E which \in {"pub", "priv"} :
         \E other \in Others(which) :
            out' = [op |-> "__ne__", self |-> which, arg |-> other,
                    result |-> key_ne(Self(which), other)]
    /\ hist' = Append(hist, "__ne__")
    /\ UNCHANGED <<msg, rnd, val, kerr, priv>>
    /\ UNCHANGED <<genVars, libVars, attempts, resampled>>

KeyHash ==
    /\ CanApply("__hash__")
    /\ \E which \in {"pub", "priv"} :
         out' = [op |-> "__hash__", self |-> which, arg |-> None,
                 result |-> key_hash(Self(which))]
    /\ hist' = Append(hist, "__hash__")
    /\ UNCHANGED <<msg, rnd, val, kerr, priv>>
    /\ UNCHANGED <<genVars, libVars, attempts, resampled>>

NextKey ==
    \/ EncryptInt
    \/ DecryptInt
    \/ Blind
    \/ Unblind
    \/ BlindedDecrypt
    \/ BlindedEncrypt
    \/ SavePkcs1
    \/ GetState
    \/ SetState
    \/ KeyEq
    \/ KeyNe
    \/ KeyHash

SpecKey == InitKey /\ [][NextKey]_vars

(***************************************************************************)
(* Properties.                                                             *)
(***************************************************************************)
RECURSIVE GCD(_, _)
GCD(a, b) == IF b = 0 THEN a ELSE GCD(b, a % b)

Returned(kind) == pc = "done" /\ ret.kind = kind

\* C1: every key pair newkeys returns is consistent: n = p * q,
\* (e * d) mod ((p - 1)(q - 1)) = 1, p # q, and the public key carries the
\* private key's n and e, e being the requested exponent.
C1_KeyPairConsistent ==
    Returned("keys") =>
        /\ priv.n = priv.p * priv.q
        /\ MulMod(priv.e, priv.d, (priv.p - 1) * (priv.q - 1)) = 1
        /\ priv.p # priv.q
        /\ pub.n = priv.n
        /\ pub.e = priv.e
        /\ priv.e = args.exponent

C1_Witness ==
    /\ Returned("keys")
    /\ args.exponent = 3
    /\ priv.d > 1

\* C2: newkeys with nbits < 16 raises "Key too small" with no prime requested,
\* the logger level untouched and no key pair returned.
C2_KeyTooSmall ==
    (args.entry = "newkeys" /\ args.nbits < MinKeyBits) =>
        /\ pc = "done"
        /\ ret = Raised("Key too small")
        /\ requested = {}
        /\ logLevel = levelBefore
        /\ pub = NoKey
        /\ priv = NoKey

C2_Witness ==
    /\ args.entry = "newkeys"
    /\ args.nbits < MinKeyBits
    /\ args.log_level = "DEBUG"
    /\ levelBefore = "INFO"
    /\ args.poolsize = 0
    /\ ret.kind = "error"

\* C6: whenever find_p_q returns in accurate mode, p * q has exactly
\* 2 * nbits bits.
C6_AccurateProductBits ==
    (pc = "done" /\ ret.kind \in {"pq", "keys"} /\ args.accurate) =>
        product_bit_size(ret.p, ret.q) = 2 * FindBits

C6_Witness ==
    /\ Returned("pq")
    /\ args.accurate
    /\ change_p
    /\ product_bit_size(ret.p, ret.q) = 2 * args.nbits

\* C7: whenever find_p_q returns (p, q), accurate or not, p > q.
C7_LargerPrimeFirst ==
    (pc = "done" /\ ret.kind \in {"pq", "keys"}) => ret.p > ret.q

C7_Witness ==
    /\ Returned("pq")
    /\ ~args.accurate
    /\ p < q
    /\ ret.p = q
    /\ ret.q = p

\* C8: for every nbits >= 16, odd values included, newkeys in accurate mode
\* returns a modulus n of exactly nbits bits.
C8_ModulusHasNbits ==
    (Returned("keys") /\ args.accurate) => bit_size(priv.n) = args.nbits

\* C9: a PrivateKey made by the constructor or by _load_pkcs1_der has
\* exp1 = d mod (p - 1), exp2 = d mod (q - 1), coef = inverse(q, p); DER input
\* with other exponent1/exponent2/coefficient values decodes all the same,
\* to the key the constructor makes from n, e, d, p, q.
C9_CrtRecomputed ==
    /\ (Returned("key") /\ args.entry \in {"PrivateKey", "load_pkcs1_der"}) =>
          /\ priv.exp1 = priv.d % (priv.p - 1)
          /\ priv.exp2 = priv.d % (priv.q - 1)
          /\ priv.coef = inverse(priv.q, priv.p).inv
          /\ (priv.coef * priv.q) % priv.p = 1 % priv.p
    /\ (pc = "done" /\ args.entry = "load_pkcs1_der" /\ input[1] = 0) =>
          LET k == PrivateKey(input[2], input[3], input[4], input[5], input[6])
          IN  /\ (ret.kind = "key") = k.ok
              /\ priv = k.key

C9_Witness ==
    /\ Returned("key")
    /\ args.entry = "load_pkcs1_der"
    /\ input[7] # priv.exp1
    /\ input[8] # priv.exp2
    /\ input[9] # priv.coef

\* C10 as stated: every PrivateKey, from the generator, the constructor or
\* the DER decode path, has p * q = n and (e * d) mod ((p - 1)(q - 1)) = 1.
C10_EveryKeyValid ==
    (pc = "done" /\ ret.kind \in {"key", "keys"}) =>
        /\ priv.p * priv.q = priv.n
        /\ MulMod(priv.e, priv.d, (priv.p - 1) * (priv.q - 1)) = 1

\* C10 amended: a PrivateKey from the generator has p * q = n and
\* (e * d) mod ((p - 1)(q - 1)) = 1; the constructor and the DER decode path
\* store n, e, d, p, q exactly as supplied, without checking them.
C10_GeneratedKeyValid ==
    /\ Returned("keys") =>
          /\ priv.p * priv.q = priv.n
          /\ MulMod(priv.e, priv.d, (priv.p - 1) * (priv.q - 1)) = 1
    /\ (Returned("key") /\ args.entry = "PrivateKey") =>
          <<priv.n, priv.e, priv.d, priv.p, priv.q>> = input
    /\ (Returned("key") /\ args.entry = "load_pkcs1_der") =>
          <<priv.n, priv.e, priv.d, priv.p, priv.q>> = SubSeq(input, 2, 6)

C10_Witness ==
    /\ Returned("key")
    /\ args.entry = "load_pkcs1_der"
    /\ priv.p * priv.q # priv.n
    /\ MulMod(priv.e, priv.d, (priv.p - 1) * (priv.q - 1)) # 1

\* C3: for a generated key and every m in 0..n-1, raw decryption of raw
\* encryption returns m, also when m shares a factor with n.
C3_RawRoundTrip ==
    hist = <<"encrypt", "decrypt">> => val = msg

C3_Witness ==
    /\ hist = <<"encrypt", "decrypt">>
    /\ msg > 1
    /\ GCD(msg, priv.n) > 1
    /\ priv.d > 1
    /\ val = msg

\* C4 as stated: for r coprime to n, unblind(blind(m, r), r) = m.
C4_UnblindOfBlind ==
    (hist = <<"blind", "unblind">> /\ GCD(rnd, priv.n) = 1) =>
        (kerr = "none" /\ val = msg)

\* C4 amended: for r coprime to n, unblind(decrypt(blind(encrypt(m), r)), r) = m:
\* blinding is transparent across the private-key operation, as the
\* docstring of blind states it.
C4_BlindingAcrossDecrypt ==
    (hist = <<"encrypt", "blind", "decrypt", "unblind">> /\ GCD(rnd, priv.n) = 1) =>
        (kerr = "none" /\ val = msg)

C4_Witness ==
    /\ hist = <<"encrypt", "blind", "decrypt", "unblind">>
    /\ GCD(rnd, priv.n) = 1
    /\ rnd > 1
    /\ msg > 1
    /\ priv.d > 1
    /\ val = msg

\* C5: blinded_decrypt(c) completes without error for every r that randint
\* can sample from 1..n-1 and returns c^d mod n.
C5_BlindedDecryptTotal ==
    hist = <<"blinded_decrypt">> =>
        (kerr = "none" /\ val = decrypt_int(msg, priv.d, priv.n))

\* C13: decoding a private-key DER structure whose version is not 0 fails and
\* constructs no key, whatever the other fields hold; version 0 never fails so.
C13_VersionChecked ==
    (pc = "done" /\ args.entry = "load_pkcs1_der") =>
        /\ (input[1] # 0) = (ret = Raised("ValueError: version != 0"))
        /\ input[1] # 0 => priv = NoKey

C13_Witness ==
    /\ pc = "done"
    /\ args.entry = "load_pkcs1_der"
    /\ input[1] # 0
    /\ PrivateKey(input[2], input[3], input[4], input[5], input[6]).ok
    /\ input[2] = input[5] * input[6]
    /\ ret.kind = "error"
    /\ priv = NoKey

\* C14: whenever private-key DER decoding finds the encoded exp1, exp2 or coef
\* different from the recomputed ones, the warning reaches the logging sink,
\* whatever the logger's level is.
C14_WarningDelivered ==
    (Returned("key") /\ args.entry = "load_pkcs1_der"
       /\ <<priv.exp1, priv.exp2, priv.coef>> # <<input[7], input[8], input[9]>>) =>
        "malformed keyfile" \in logged

\* C19: calculate_keys_custom_exponent(p, q, exponent) fails with the
\* not-coprime error carrying gcd(exponent, phi) when that gcd is not 1, and
\* otherwise returns (e, d) with e = exponent and (e * d) mod phi = 1;
\* calculate_keys(p, q) is calculate_keys_custom_exponent(p, q, 65537).
C19_CalculateKeys ==
    (pc = "done"
       /\ args.entry \in {"calculate_keys_custom_exponent", "calculate_keys"}) =>
        LET phi == (out.p - 1) * (out.q - 1)
            g == GCD(out.exponent, phi)
            r == out.result
        IN  /\ g # 1 => /\ ~r.ok
                        /\ r.error = "NotRelativePrimeError"
                        /\ r.divider = g
            /\ g = 1 => /\ r.ok
                        /\ r.e = out.exponent
                        /\ MulMod(r.e, r.d, phi) = 1
            /\ args.entry = "calculate_keys" => out.exponent = DEFAULT_EXPONENT

C19_Witness ==
    /\ pc = "done"
    /\ args.entry = "calculate_keys_custom_exponent"
    /\ ~out.result.ok
    /\ out.result.divider > 2

\* the only errors newkeys raises are those of its own argument checks
C20_NoErrorSurfaced ==
    (pc = "done" /\ args.entry = "newkeys" /\ ret.kind = "error") =>
        ret.error \in {"Key too small", "Pool size should be >= 1"}

\* find_p_q has accepted a pair for which calculate_keys_custom_exponent raises
C20_FailedAttempt ==
    /\ pc = "loop"
    /\ args.entry = "newkeys"
    /\ is_acceptable(p, q, args.accurate, FindBits)
    /\ ~calculate_keys_custom_exponent(Max2(p, q), Min2(p, q), args.exponent).ok

\* the returned keys are built from the pair find_p_q sampled last
C20_SingleAttempt ==
    Returned("keys") =>
        /\ ret.p = Max2(p, q) /\ ret.q = Min2(p, q)
        /\ priv.p = ret.p /\ priv.q = ret.q
        /\ priv.e = args.exponent
        /\ MulMod(priv.e, priv.d, (ret.p - 1) * (ret.q - 1)) = 1
        /\ priv.d < (ret.p - 1) * (ret.q - 1)

\* C20: gen_keys raises no coprimality error to its caller, every failed
\* attempt is followed by a find_p_q call that samples p and q anew, and the
\* returned p, q, e, d all come from the attempt that succeeded.
C20_RetryInvisible ==
    /\ [](C20_NoErrorSurfaced /\ C20_SingleAttempt)
    /\ [][C20_FailedAttempt =>
            (pc' = "find_p_q" /\ ret' = NoRet /\ priv' = NoKey /\ pub' = NoKey
             /\ p' = 0 /\ q' = 0)]_vars
    /\ [][(pc = "find_p_q" /\ pc' = "loop") =>
            (p' \in getprime(pbits(FindBits)) /\ q' \in getprime(qbits(FindBits))
             /\ ~change_p')]_vars

C20_Witness ==
    /\ Returned("keys")
    /\ attempts >= 2

C12_EqualityByValue ==
    (hist \in {<<"__eq__">>, <<"__ne__">>}) =>
        LET a == Self(out.self)
            b == out.arg
            sameValue ==
                /\ b # None
                /\ b.type = a.type
                /\ a.n = b.n /\ a.e = b.e
                /\ a.type = "PrivateKey" =>
                     /\ a.d = b.d /\ a.p = b.p /\ a.q = b.q
                     /\ a.exp1 = b.exp1 /\ a.exp2 = b.exp2 /\ a.coef = b.coef
        IN  /\ out.op = "__eq__" => out.result = sameValue
            /\ out.op = "__ne__" => out.result = ~sameValue
            /\ key_eq(a, b) => key_hash(a) = key_hash(b)
            /\ key_ne(a, b) = ~key_eq(a, b)

C12_Witness ==
    /\ hist = <<"__eq__">>
    /\ out.self = "priv"
    /\ out.arg # None
    /\ out.arg.type = "PrivateKey"
    /\ out.arg.coef # priv.coef
    /\ ~out.result

\* C15: load_pkcs1_openssl_der fails with a type error and returns no key
\* when the OID of the file is not 1.2.840.113549.1.1.1; when it is, the
\* result is the PKCS#1 decoding of the BIT STRING content less its first
\* octet.
C15_OpensslOidChecked ==
    (pc = "done" /\ args.entry = "load_pkcs1_openssl_der") =>
        /\ out.oid # <<42, 134, 72, 134, 247, 13, 1, 1, 1>> =>
             out.result = Failed("TypeError")
        /\ out.oid = <<42, 134, 72, 134, 247, 13, 1, 1, 1>> =>
             /\ out.result = PublicKey_load_pkcs1_der(out.pkcs1)
             /\ out.result = Value(out.key)

C15_Witness ==
    /\ pc = "done"
    /\ args.entry = "load_pkcs1_openssl_der"
    /\ out.oid = <<42, 134, 72, 134, 247, 13, 1, 1, 11>>
    /\ out.key = DocPublicKey
    /\ ~out.result.ok

\* C16: save_pkcs1 and load_pkcs1 run the PEM routine for format 'PEM', the
\* DER routine for 'DER', and for any other format fail with a value error
\* that names DER, PEM, nothing being encoded or decoded.
C16_FormatSelection ==
    /\ (pc = "done" /\ args.entry = "save_pkcs1") =>
         /\ out.format = "PEM" => out.result = Value(save_pkcs1_pem(out.key))
         /\ out.format = "DER" => out.result = Value(save_pkcs1_der(out.key))
         /\ out.format \notin {"PEM", "DER"} =>
              out.result = [ok |-> FALSE,
                            error |-> "ValueError: Unsupported format",
                            value |-> <<"DER", "PEM">>]
    /\ (pc = "done" /\ args.entry = "load_pkcs1") =>
         /\ out.format \in {"PEM", "DER"} =>
              out.result.error # "NotImplementedError"
         /\ out.format \notin {"PEM", "DER"} =>
              out.result = [ok |-> FALSE,
                            error |-> "ValueError: Unsupported format",
                            value |-> <<"DER", "PEM">>]

\* C17: for every key k and each format f of PEM and DER,
\* load_pkcs1(k.save_pkcs1(f), f) returns a key equal to k.
C17_RoundTrip ==
    (pc = "done" /\ args.entry = "load_pkcs1" /\ out.format = out.saved) =>
        /\ out.result.ok
        /\ out.result.value = out.key

\* C18: PublicKey(2367317549, 65537) is saved as the 14 bytes
\* 30 0C 02 05 00 8D 1A 66 2D 02 03 01 00 01, base64 MAwCBQCNGmYtAgMBAAE=,
\* with a zero octet in front of n's magnitude and none in front of e's;
\* PublicKey._load_pkcs1_der of those bytes gives PublicKey(2367317549, 65537).
C18_KnownAnswer ==
    /\ (pc = "done" /\ args.entry = "save_pkcs1" /\ out.key = DocPublicKey
          /\ out.format = "DER") =>
         /\ out.result =
              Value(<<48, 12, 2, 5, 0, 141, 26, 102, 45, 2, 3, 1, 0, 1>>)
         /\ b64encode(out.result.value) = DocBase64
    /\ (pc = "done" /\ args.entry = "PublicKey._load_pkcs1_der"
          /\ out.keyfile = <<48, 12, 2, 5, 0, 141, 26, 102, 45, 2, 3, 1, 0, 1>>) =>
         out.result = Value(DocPublicKey)
    /\ (pc = "done" /\ args.entry = "PublicKey._load_pkcs1_der"
          /\ out.keyfile = b64decode(DocBase64)) =>
         out.result = Value(DocPublicKey)

C18_Witness ==
    /\ pc = "done"
    /\ args.entry = "PublicKey._load_pkcs1_der"
    /\ out.keyfile = b64decode(DocBase64)
    /\ out.result.ok
    /\ out.result.value.n = <<141, 26, 102, 45>>

(***************************************************************************)
(* find_p_q called on its own, as a state machine of its own               *)
(***************************************************************************)
NextFind ==
    \/ FindPQCall
    \/ FindPQSample
    \/ FindPQResample
    \/ FindPQReturn
    \/ Return

SpecFind == Init /\ [][NextFind]_vars

\* C21: newkeys, whatever its arguments, leaves the module logger's level as
\* it was before the call, so that no later call depends on an earlier one.
C21_NoSharedState ==
    (pc = "done" /\ args.entry = "newkeys") => logLevel = levelBefore

C24_FastModeAcceptance ==
    /\ (pc = "loop" /\ ~args.accurate) =>
         (is_acceptable(p, q, args.accurate, FindBits) <=> p # q)
    /\ (pc = "done" /\ ret.kind \in {"pq", "keys"} /\ ~args.accurate) =>
         /\ ret.p # ret.q
         /\ product_bit_size(ret.p, ret.q) \in {2 * FindBits - 1, 2 * FindBits}

C24_Witness ==
    /\ Returned("pq")
    /\ ~args.accurate
    /\ resampled.count > 0
    /\ product_bit_size(ret.p, ret.q) = 2 * args.nbits - 1

\* a step of the re-sampling loop of a direct find_p_q call
C25_ResampleStep ==
    /\ args.entry = "find_p_q"
    /\ pc = "loop" /\ pc' = "loop"
    /\ resampled' # resampled

\* what every re-sampling iteration does: it replaces one prime, leaves the
\* other one as it is, and does not replace the prime the iteration before
\* it replaced
C25_Alternates ==
    /\ resampled'.last \in {"p", "q"}
    /\ resampled'.last = "p" => (q' = q /\ p' \in getprime(bit_size(p)))
    /\ resampled'.last = "q" => (p' = p /\ q' \in getprime(bit_size(q)))
    /\ resampled.last # "none" => resampled'.last # resampled.last

\* C25 as stated: the re-samples alternate, each replaces exactly one prime,
\* and the first one replaces p.
C25_FirstReplacesP ==
    [][C25_ResampleStep =>
         /\ C25_Alternates
         /\ resampled.last = "none" => resampled'.last = "p"]_vars

\* C25 amended: the re-samples alternate, each replaces exactly one prime and
\* leaves the other unchanged, never the same prime twice in a row, and the
\* first one replaces q.
C25_FirstReplacesQ ==
    [][C25_ResampleStep =>
         /\ C25_Alternates
         /\ resampled.last = "none" => resampled'.last = "q"]_vars

C25_Witness ==
    /\ args.entry = "find_p_q"
    /\ pc = "loop"
    /\ resampled = [count |-> MaxResamples, last |-> "p"]
    /\ ~change_p

\* a newkeys call with an even exponent whose other arguments are accepted
C27_EvenExponentCall ==
    /\ args.entry = "newkeys"
    /\ args.exponent % 2 = 0
    /\ args.nbits >= MinKeyBits
    /\ args.poolsize >= 1

\* C27: newkeys does not reject an even exponent and never returns for it:
\* every derivation attempt fails the coprimality test and is retried.
C27_EvenExponentLoops ==
    /\ [](C27_EvenExponentCall =>
            /\ pc \in {"find_p_q", "loop"}
            /\ ret = NoRet
            /\ pc = "loop" =>
                 LET r == find_p_q_return(p, q)
                 IN  ~calculate_keys_custom_exponent(r.p, r.q,
                                                     args.exponent).ok)
    /\ [][(C27_EvenExponentCall /\ pc = "loop"
             /\ is_acceptable(p, q, args.accurate, FindBits)) =>
            (pc' = "find_p_q" /\ args' = args)]_vars

C27_Witness ==
    /\ C27_EvenExponentCall
    /\ pc = "loop"
    /\ is_acceptable(p, q, args.accurate, FindBits)
    /\ attempts = MaxAttempts

(***************************************************************************)
(* blinded_encrypt and blinded_decrypt on their own, for keys over primes   *)
(* large enough for d and e to differ modulo the order of the units of n   *)
(***************************************************************************)
BlindPrimes == {x \in 2..MaxBlindPrime : IsPrime(x)}

BlindKeys ==
    {newkeys_build(t[1], t[2], t[3],
                   calculate_keys_custom_exponent(t[1], t[2], t[3]).d).priv.key :
        t \in {u \in BlindPrimes \X BlindPrimes \X SmallExponents :
                 u[1] > u[2]
                 /\ calculate_keys_custom_exponent(u[1], u[2], u[3]).ok}}

InitBlind ==
    /\ pc = "idle"
    /\ args = NoArgs
    /\ p = 0 /\ q = 0 /\ change_p = FALSE
    /\ requested = {}
    /\ logLevel = "INFO"
    /\ levelBefore = "INFO"
    /\ logged = {}
    /\ ret = NoRet
    /\ input = <<>>
    /\ resampled = NoResample
    /\ sha = NoSha /\ pbm = NoPbm
    /\ attempts = 0
    /\ out = NoOut
    /\ priv \in BlindKeys
    /\ pub = PublicKey(priv.n, priv.e)
    /\ msg \in 0..(priv.n - 1)
    /\ rnd = 1
    /\ val = msg
    /\ hist = <<>>
    /\ kerr = "none"

NextBlind ==
    \/ BlindedDecrypt
    \/ BlindedEncrypt

SpecBlind == InitBlind /\ [][NextBlind]_vars

\* base^exponent mod modulus, from b^(2k) = (b^k)^2 and b^(2k+1) = b * (b^k)^2
RECURSIVE C28_PowMod(_, _, _)
C28_PowMod(base, exponent, modulus) ==
    IF exponent = 0 THEN 1 % modulus
    ELSE LET h == C28_PowMod(base, exponent \div 2, modulus)
         IN  IF exponent % 2 = 0 THEN (h * h) % modulus
             ELSE (base * ((h * h) % modulus)) % modulus

\* C28: for a valid key, 0 <= m < n and a blinding factor r coprime to n,
\* blinded_encrypt(m) = m^d mod n = blinded_decrypt(m), and that value raised
\* to e modulo n is m.
C28_BlindedEncryptIsPrivateOp ==
    (hist = <<"blinded_encrypt">> /\ GCD(rnd, priv.n) = 1) =>
        /\ kerr = "none"
        /\ val = C28_PowMod(msg, priv.d, priv.n)
        /\ blinded_decrypt(priv, msg, rnd) =
             [ok |-> TRUE, error |-> "none", value |-> val]
        /\ C28_PowMod(val, priv.e, priv.n) = msg

C28_Witness ==
    /\ hist = <<"blinded_encrypt">>
    /\ GCD(rnd, priv.n) = 1
    /\ rnd > 1
    /\ msg > 1
    /\ priv.d # priv.e
    /\ val # msg
    /\ val # C28_PowMod(msg, priv.e, priv.n)

(***************************************************************************)
(* newkeys with a fair prime source: every step that can be taken is       *)
(* taken, and in the re-sampling loop every prime of the requested length  *)
(* is returned again and again, for p as well as for q                     *)
(***************************************************************************)
(* newkeys with the default exponent and log level as a program that keeps *)
(* running: each pass of the re-sampling loop is taken when it can be.     *)
(* What the prime source answers is left open; the assumptions about it    *)
(* are the formulas below.                                                 *)
(***************************************************************************)
NewkeysCallDefault ==
    /\ NewkeysCall
    /\ args'.exponent = DEFAULT_EXPONENT
    /\ args'.log_level = "INFO"

NextLive ==
    \/ NewkeysCallDefault
    \/ FindPQSample
    \/ FindPQResample
    \/ NewkeysReturn
    \/ Return

SpecLive ==
    /\ Init
    /\ [][NextLive]_vars
    /\ WF_vars(FindPQSample)
    /\ WF_vars(FindPQResample)

\* the prime getprime answered last in the re-sampling loop, and the bit
\* length it was asked for
LastOffered == IF change_p THEN q ELSE p
LastOfferedBits == IF change_p THEN qbits(FindBits) ELSE pbits(FindBits)

\* every prime of the requested bit length keeps being offered: as long as
\* the loop runs, getprime answers x again and again
FairPrimeSource ==
    \A x \in OddPrimes :
        []<>((pc = "loop" /\ bit_size(x) = LastOfferedBits) => LastOffered = x)

\* the loop is running and some answer of getprime would end it
CanAccept ==
    /\ pc = "loop"
    /\ ~is_acceptable(p, q, args.accurate, FindBits)
    /\ \E x \in getprime(IF change_p THEN pbits(FindBits) ELSE qbits(FindBits)) :
         is_acceptable(IF change_p THEN x ELSE p, IF change_p THEN q ELSE x,
                       args.accurate, FindBits)

\* the prime source does not avoid for ever an answer that ends the loop:
\* if such an answer is possible again and again, the loop ends
FairOutcome ==
    \/ <>[]~CanAccept
    \/ []<>(pc = "loop" /\ is_acceptable(p, q, args.accurate, FindBits))

\* a newkeys call with the default exponent whose arguments are accepted
C26_DefaultCall ==
    /\ args.entry = "newkeys"
    /\ args.exponent = DEFAULT_EXPONENT
    /\ args.nbits >= MinKeyBits
    /\ args.poolsize >= 1

\* the re-sampling loop of such a call is left: find_p_q has accepted its pair
C26_PairAccepted ==
    /\ C26_DefaultCall
    /\ pc = "loop"
    /\ is_acceptable(p, q, args.accurate, FindBits)

\* no error ends such a call; calculate_keys_custom_exponent does not raise
\* for a pair find_p_q has accepted, so that the retry loop is left with the
\* re-sampling loop, and the step after the loops returns a key pair
C26_NoErrorEnds ==
    /\ [](C26_DefaultCall /\ pc = "done" => ret.kind = "keys")
    /\ [](C26_PairAccepted =>
            calculate_keys_custom_exponent(Max2(p, q), Min2(p, q),
                                           args.exponent).ok)
    /\ [][C26_PairAccepted => (pc' = "done" /\ ret'.kind = "keys")]_vars

Zeros(n) == [k \in 1..n |-> 0]

\* sha_init(): the dict of new_shaobject; the initial digest words are the
\* empty sequence of compressed blocks
sha_init ==
    [data |-> Zeros(SHA_BLOCKSIZE), local |-> 0, count_lo |-> 0, count_hi |-> 0,
     digest |-> <<>>]

sha_transform(sha_info) ==
    [sha_info EXCEPT !.digest = Append(@, sha_info.data)]

\* data[pos : pos + n] = buffer[idx : idx + n], written into the list
slice_assign(data, pos, buffer, idx, n) ==
    [k \in 1..SHA_BLOCKSIZE |->
        IF k > pos /\ k <= pos + n THEN buffer[idx + k - pos] ELSE data[k]]

\* sha_update from "while size >= SHA_BLOCKSIZE" on.  old is the list the
\* dict referred to when sha_update was called, rebound says that "data"
\* has been bound to a new list since.
RECURSIVE sha_update_blocks(_, _, _, _, _)
sha_update_blocks(sha_info, buffer, buffer_idx, old, rebound) ==
    LET size == Len(buffer) - buffer_idx
    IN  IF size >= SHA_BLOCKSIZE
        THEN sha_update_blocks(
                 sha_transform([sha_info EXCEPT !.data =
                     SubSeq(buffer, buffer_idx + 1, buffer_idx + SHA_BLOCKSIZE)]),
                 buffer, buffer_idx + SHA_BLOCKSIZE, old, TRUE)
        ELSE LET written == slice_assign(sha_info.data, sha_info.local, buffer,
                                         buffer_idx, size)
             IN  [info |-> [sha_info EXCEPT !.data = written, !.local = size],
                  old |-> IF rebound THEN old ELSE written,
                  rebound |-> rebound]

\* sha_update(sha_info, buffer): the dict afterwards, and what the list it
\* referred to at the call holds afterwards
sha_update(sha_info, buffer) ==
    LET size == Len(buffer)
        counted == [sha_info EXCEPT !.count_lo = @ + size * 8,
                                    !.count_hi = @ + size \div 2 ^ 29]
        i == Min2(SHA_BLOCKSIZE - sha_info.local, size)
        filled == slice_assign(sha_info.data, sha_info.local, buffer, 0, i)
    IN  IF sha_info.local > 0
        THEN IF sha_info.local + i = SHA_BLOCKSIZE
             THEN sha_update_blocks(
                      [sha_transform([counted EXCEPT !.data = filled])
                          EXCEPT !.local = 0],
                      buffer, i, filled, FALSE)
             ELSE [info |-> [counted EXCEPT !.data = filled,
                                            !.local = sha_info.local + i],
                   old |-> filled,
                   rebound |-> FALSE]
        ELSE sha_update_blocks(counted, buffer, 0, sha_info.data, FALSE)

\* the eight length octets sha_final stores at data[56..63]
length_octets(data, hi_bit_count, lo_bit_count) ==
    [k \in 1..SHA_BLOCKSIZE |->
        IF k <= SHA_BLOCKSIZE - 8 THEN data[k]
        ELSE IF k <= SHA_BLOCKSIZE - 4
        THEN (hi_bit_count \div 2 ^ (8 * (SHA_BLOCKSIZE - 4 - k))) % 256
        ELSE (lo_bit_count \div 2 ^ (8 * (SHA_BLOCKSIZE - k))) % 256]

\* sha_final(sha_info): the digest, and what the list the dict referred to
\* at the call holds afterwards (data[count] = 0x80 is written into it)
sha_final(sha_info) ==
    LET count == (sha_info.count_lo \div 8) % SHA_BLOCKSIZE
        marked == [sha_info.data EXCEPT ![count + 1] = 128]
        padded == [k \in 1..SHA_BLOCKSIZE |->
                      IF k <= count + 1 THEN marked[k] ELSE 0]
        first == IF count + 1 > SHA_BLOCKSIZE - 8
                 THEN [sha_transform([sha_info EXCEPT !.data = padded])
                          EXCEPT !.data = Zeros(SHA_BLOCKSIZE)]
                 ELSE [sha_info EXCEPT !.data = padded]
        last == sha_transform(
                    [first EXCEPT !.data =
                        length_octets(first.data, sha_info.count_hi,
                                      sha_info.count_lo)])
    IN  [value |-> last.digest, old |-> marked]

\* sha256.digest() that finishes the object's own dict instead of a copy
sha256_digest_in_place(sha_info) ==
    LET f == sha_final(sha_info)
    IN  [value |-> f.value, old |-> f.old,
         info |-> [sha_info EXCEPT !.digest = f.value,
                                   !.data = Zeros(SHA_BLOCKSIZE)]]

\* sha256.digest(): sha_final on a shallow copy of the dict.  The object's
\* dict keeps its entries; the list its "data" refers to is written to.
sha256_digest(sha_info) ==
    LET f == sha_final(sha_info)
    IN  [value |-> f.value, old |-> f.old,
         info |-> [sha_info EXCEPT !.data = f.old]]

\* sha256.copy(): a new object whose dict is a shallow copy
sha256_copy(sha_info) == sha_info

\* the bytes the calls feed: the k-th byte of the stream of object obj
ChunkByte(obj, k) == IF obj = 1 THEN 1 + (k % 100) ELSE 129 + (k % 100)

ChunkSizes == {0, 1, SHA_BLOCKSIZE - 1, SHA_BLOCKSIZE, SHA_BLOCKSIZE + 1}

\* the digest of a fresh object given the whole stream in one update
OneShot(stream) == sha_final(sha_update(sha_init, stream).info).value

\* the object that shares a clone's list: 2 for 1, 1 for 2
InitSha ==
    /\ pc = "idle"
    /\ args = NoArgs
    /\ p = 0 /\ q = 0 /\ change_p = FALSE
    /\ requested = {}
    /\ logLevel = "INFO"
    /\ levelBefore = "INFO"
    /\ logged = {}
    /\ ret = NoRet
    /\ pub = NoKey /\ priv = NoKey
    /\ input = <<>>
    /\ attempts = 0
    /\ out = NoOut
    /\ hist = <<>> /\ msg = 0 /\ rnd = 0 /\ val = 0 /\ kerr = "none"
    /\ resampled = NoResample
    /\ pbm = NoPbm
    /\ sha = [NoSha EXCEPT !.objs = <<sha_init>>, !.streams = << <<>> >>]

\* obj.update(s)
ShaUpdate ==
    /\ sha.ops < MaxShaOps
    /\ \E obj \in 1..Len(sha.objs), size \in ChunkSizes :
         LET buffer == [j \in 1..size |->
                           ChunkByte(obj, Len(sha.streams[obj]) + j)]
             u == sha_update(sha.objs[obj], buffer)
             seen == sha.shared /\ Len(sha.objs) = 2
         IN  sha' = [sha EXCEPT
                 !.objs = [o \in 1..Len(sha.objs) |->
                              IF o = obj THEN u.info
                              ELSE IF seen THEN [sha.objs[o] EXCEPT !.data = u.old]
                              ELSE sha.objs[o]],
                 !.shared = seen /\ ~u.rebound,
                 !.streams[obj] = @ \o buffer,
                 !.ops = @ + 1,
                 !.last = NoDigest]
    /\ UNCHANGED <<genVars, keyVars, attempts, out, resampled, pbm, priv>>

\* obj.digest()
ShaDigest ==
    /\ sha.ops < MaxShaOps
    /\ \E obj \in 1..Len(sha.objs) :
         LET d == sha256_digest(sha.objs[obj])
             seen == sha.shared /\ Len(sha.objs) = 2
         IN  sha' = [sha EXCEPT
                 !.objs = [o \in 1..Len(sha.objs) |->
                              IF o = obj THEN d.info
                              ELSE IF seen THEN [sha.objs[o] EXCEPT !.data = d.old]
                              ELSE sha.objs[o]],
                 !.ops = @ + 1,
                 !.digests = @ + 1,
                 !.last = [op |-> "digest", obj |-> obj, value |-> d.value]]
    /\ UNCHANGED <<genVars, keyVars, attempts, out, resampled, pbm, priv>>

\* c = h.copy()
ShaCopy ==
    /\ sha.ops < MaxShaOps
    /\ Len(sha.objs) = 1
    /\ sha' = [sha EXCEPT
           !.objs = Append(@, sha256_copy(sha.objs[1])),
           !.shared = TRUE,
           !.streams = Append(@, sha.streams[1]),
           !.ops = @ + 1,
           !.last = NoDigest]
    /\ UNCHANGED <<genVars, keyVars, attempts, out, resampled, pbm, priv>>

NextSha ==
    \/ ShaUpdate
    \/ ShaDigest
    \/ ShaCopy

SpecSha == InitSha /\ [][NextSha]_vars

\* what obj.digest() returns in the current state
DigestNow(obj) == sha256_digest(sha.objs[obj]).value

\* C22: after c = h.copy(), whatever is done with one of the two objects,
\* every digest of the other is the digest of the bytes given to it, for
\* every amount of data buffered at the copy.
C22_CopyIndependent ==
    Len(sha.objs) = 2 =>
        \A obj \in 1..2 : DigestNow(obj) = OneShot(sha.streams[obj])

\* C29: for an object that is updated and digested, never cloned, every
\* digest() returns the digest of a fresh object given all the bytes in one
\* update, however the bytes were split and wherever digest() was called
\* before, and a digest() right after a digest() returns the same value.
C29_StreamingDigest ==
    Len(sha.objs) = 1 =>
        /\ DigestNow(1) = OneShot(sha.streams[1])
        /\ sha.last.op = "digest" => sha.last.value = DigestNow(1)

C29_Witness ==
    /\ Len(sha.objs) = 1
    /\ sha.ops = MaxShaOps
    /\ sha.digests >= 2
    /\ sha.last.op = "digest"
    /\ Len(sha.streams[1]) > SHA_BLOCKSIZE
    /\ sha.objs[1].local > 0
    /\ Len(sha.last.value) = 3

(***************************************************************************)
(* SpecPbm: adafruit_imageload/pnm/pbm_binary.py, load.  One step per      *)
(* file.read(1) and one per iteration of the loop over the bits.           *)
(***************************************************************************)
MaxDim == 2
MaxFileLen == 2
PbmBytes == {0, 1, 128, 165, 255}

RECURSIVE BitAnd(_, _)
BitAnd(a, b) ==
    IF a = 0 \/ b = 0 THEN 0
    ELSE (a % 2) * (b % 2) + 2 * BitAnd(a \div 2, b \div 2)

RECURSIVE BitOr(_, _)
BitOr(a, b) ==
    IF a = 0 /\ b = 0 THEN 0
    ELSE (IF a % 2 = 1 \/ b % 2 = 1 THEN 1 ELSE 0) + 2 * BitOr(a \div 2, b \div 2)

\* reverse(b): swap the nibbles, then the pairs, then the neighbours
reverse(b) ==
    LET b1 == BitOr(BitAnd(b, 240) \div 16, BitAnd(b, 15) * 16)
        b2 == BitOr(BitAnd(b1, 204) \div 4, BitAnd(b1, 51) * 4)
    IN  BitOr(BitAnd(b2, 170) \div 2, BitAnd(b2, 85) * 2)

\* the i-th value iterbits yields from in_char: (in_char >> i) & 1
iterbit(in_char, i) == BitAnd(in_char \div (2 ^ i), 1)

PbmFiles == UNION {[1..n -> PbmBytes] : n \in 0..MaxFileLen}

InitPbm ==
    /\ pc = "idle"
    /\ args = NoArgs
    /\ p = 0 /\ q = 0 /\ change_p = FALSE
    /\ requested = {}
    /\ logLevel = "INFO"
    /\ levelBefore = "INFO"
    /\ logged = {}
    /\ ret = NoRet
    /\ pub = NoKey /\ priv = NoKey
    /\ input = <<>>
    /\ attempts = 0
    /\ out = NoOut
    /\ hist = <<>> /\ msg = 0 /\ rnd = 0 /\ val = 0 /\ kerr = "none"
    /\ resampled = NoResample
    /\ sha = NoSha
    /\ pbm = NoPbm

\* load(file, width, height, bitmap): x = 0, y = 0
PbmLoad ==
    /\ pbm.pc = "idle"
    /\ \E width \in 1..MaxDim, height \in 1..MaxDim, file \in PbmFiles :
         pbm' = [NoPbm EXCEPT !.pc = "read", !.width = width,
                              !.height = height, !.file = file]
    /\ UNCHANGED <<genVars, keyVars, attempts, out, resampled, sha, priv>>

\* next_byte = file.read(1); break at the end of the file, else start
\* iterbits(next_byte)
PbmReadByte ==
    /\ pbm.pc = "read"
    /\ pbm' = IF pbm.pos = Len(pbm.file)
              THEN [pbm EXCEPT !.pc = "done"]
              ELSE [pbm EXCEPT !.pc = "bits", !.pos = pbm.pos + 1,
                               !.in_char = reverse(pbm.file[pbm.pos + 1]),
                               !.i = 0]
    /\ UNCHANGED <<genVars, keyVars, attempts, out, resampled, sha, priv>>

\* one iteration of `for bit in iterbits(next_byte)`: the write, the
\* advance of x and y, and the break, which leaves this loop only.  A write
\* outside the bitmap is the bitmap's to answer: it raises, or takes it.
PbmWriteBit ==
    /\ pbm.pc = "bits"
    /\ LET bit == iterbit(pbm.in_char, pbm.i)
           wrote == [done |-> TRUE, x |-> pbm.x, y |-> pbm.y, bit |-> bit,
                     byte |-> pbm.file[pbm.pos], i |-> pbm.i]
           inside == pbm.x < pbm.width /\ pbm.y < pbm.height
           x1 == pbm.x + 1
           wrap == x1 > pbm.width - 1
           y2 == IF wrap THEN pbm.y + 1 ELSE pbm.y
           x2 == IF wrap THEN 0 ELSE x1
           leave == y2 > pbm.height - 1 \/ pbm.i = 7
           went_on == [pbm EXCEPT !.write = wrote, !.x = x2, !.y = y2,
                                  !.i = IF leave THEN pbm.i ELSE pbm.i + 1,
                                  !.pc = IF leave THEN "read" ELSE "bits"]
       IN  \/ pbm' = went_on
           \/ ~inside /\ pbm' = [pbm EXCEPT !.write = wrote, !.pc = "raised"]
    /\ UNCHANGED <<genVars, keyVars, attempts, out, resampled, sha, priv>>

\* return bitmap, palette, or the propagation of the bitmap's error
PbmReturn ==
    /\ pbm.pc \in {"done", "raised"}
    /\ pbm' = NoPbm
    /\ UNCHANGED <<genVars, keyVars, attempts, out, resampled, sha, priv>>

NextPbm == PbmLoad \/ PbmReadByte \/ PbmWriteBit \/ PbmReturn

SpecPbm == InitPbm /\ [][NextPbm]_vars

\* every write is at coordinates of the bitmap
C30_InsideBitmap ==
    pbm.write.done =>
        /\ 0 <= pbm.write.x /\ pbm.write.x < pbm.width
        /\ 0 <= pbm.write.y /\ pbm.write.y < pbm.height

\* the i-th bit written from a byte is its i-th bit from the top
C30_MsbFirst ==
    pbm.write.done =>
        pbm.write.bit = (pbm.write.byte \div (2 ^ (7 - pbm.write.i))) % 2

\* C30: every write bitmap[x, y] of load has 0 <= x < width and
\* 0 <= y < height, whatever the length of the file, and the bits of each
\* byte are written most significant first
C30_WritesInsideBitmap == C30_InsideBitmap /\ C30_MsbFirst

====
